---- MODULE Spec2Model ----
(***************************************************************************)
(* Zerobin backend: duplicate detection (app/utils/duplicate_detection.py),*)
(* automatic collector assignment (app/services/assignment_service.py) and *)
(* behavioural fraud scoring (app/services/fraud_detection_service.py).    *)
(*                                                                         *)
(* Also the dynamic verification threshold with quest completion           *)
(* (app/routers/quests.py complete_quest) and the creation of quests       *)
(* (REST create_quest, the agent graph, the create_quest_in_database tool),*)
(* the comparison of photo metadata (app/utils/exif_extraction.py) and the *)
(* REST operations on a quest (assign, complete, update, review).          *)
(*                                                                         *)
(* The subsystems share no state.  Each has its own variables, its own     *)
(* initial predicate and next-state relation, and its own specification    *)
(* (SpecDup, SpecScore, SpecAssign, SpecFraud, SpecVerify, SpecCreate,     *)
(* SpecExif, SpecOps; SpecAssignSerial runs the assignment calls one at a  *)
(* time);                                                                  *)
(* the variables of the other subsystems stay at their idle values.        *)
(***************************************************************************)
EXTENDS Integers, Sequences, FiniteSets, TLC

VARIABLES
    \* ---- is_potential_duplicate: arguments and returned tuple
    dupArgs,        \* the call's arguments
    dupResult,      \* the returned (is_duplicate, reason), or NotCalled
    \* ---- _select_best_collector: candidate pool and returned candidate
    pool,           \* the list of candidate dicts passed in
    best,           \* the returned candidate (with its "score"), or NotCalled
    \* ---- assign_collector_to_quest over the database
    users,          \* users table: id -> row
    quests,         \* quests table: id -> row
    history,        \* quest_assignment_history table, in insertion order
    now,            \* datetime.utcnow(), minutes
    call,           \* per coroutine: position and locals of assign_collector_to_quest
    callCount,      \* number of calls started so far
    \* ---- analyze_collector_behavior
    fraudQuests,    \* the collector's quests, ordered by completed_at
    fraudUser,      \* the collector's row (fraud_risk_score, last_fraud_check)
    patterns,       \* collector_behavior_patterns rows added to the session
    fraudRun,       \* the last run: returned pattern and the sub-analyses it performed
    \* ---- get_dynamic_ai_threshold and complete_quest
    settings,       \* the settings read: AI_VERIFICATION_CONFIDENCE_THRESHOLD
    threshold,      \* the last get_dynamic_ai_threshold call: argument and value
    completion,     \* the quest being completed, its collector and the response
    \* ---- creation of quests
    reports,        \* quests table: the quests created, in insertion order
    createClock,    \* datetime.utcnow(), minutes
    created,        \* the last creation request: path, point and outcome
    \* ---- compare_metadata: arguments and returned dict
    exifArgs,       \* the call's arguments
    exifResult,     \* the returned dict, or NotCalled
    \* ---- the REST operations on quests
    questTable,     \* quests table: id -> row
    reviewTable,    \* admin_reviews table: quest id -> status of its latest review
    bounties,       \* transactions table: the QUEST_COMPLETION rows, in insertion order
    reputations,    \* users table: collector -> reputation_score
    lastRequest     \* the request just answered

dupVars    == << dupArgs, dupResult >>
scoreVars  == << pool, best >>
assignVars == << users, quests, history, now, call, callCount >>
fraudVars  == << fraudQuests, fraudUser, patterns, fraudRun >>
verifyVars == << settings, threshold, completion >>
createVars == << reports, createClock, created >>
exifVars   == << exifArgs, exifResult >>
opsVars    == << questTable, reviewTable, bounties, reputations, lastRequest >>
vars       == << dupArgs, dupResult, pool, best, users, quests, history, now,
                 call, callCount, fraudQuests, fraudUser, patterns, fraudRun,
                 settings, threshold, completion, reports, createClock, created,
                 exifArgs, exifResult, questTable, reviewTable, bounties,
                 reputations, lastRequest >>

\* Python's None for strings and ids, and for nullable numbers.
None    == "None"
NoValue == 0 - 1
\* A function that has not been called yet has returned nothing.
NotCalled == [called |-> FALSE]

Max2(a, b) == IF a >= b THEN a ELSE b
Min2(a, b) == IF a <= b THEN a ELSE b
Abs(a)     == IF a >= 0 THEN a ELSE 0 - a

(***************************************************************************)
(* Duplicate detection                                                     *)
(***************************************************************************)

\* Longest geohash the model encodes (the application stores 8 characters).
MaxGeohashLen == 2

\* One geohash bit: compare with the interval's midpoint, keep the half the
\* coordinate lies in.  Coordinates and interval ends are scaled by two at
\* every step, so the midpoint lo+hi is exact at every depth.
RECURSIVE GeoBits(_, _, _, _, _, _, _, _)
GeoBits(lat, latLo, latHi, lng, lngLo, lngHi, even, n) ==
    IF n = 0 THEN << >>
    ELSE IF even
         THEN IF 2 * lng > lngLo + lngHi
              THEN << 1 >> \o GeoBits(2 * lat, 2 * latLo, 2 * latHi,
                                      2 * lng, lngLo + lngHi, 2 * lngHi, FALSE, n - 1)
              ELSE << 0 >> \o GeoBits(2 * lat, 2 * latLo, 2 * latHi,
                                      2 * lng, 2 * lngLo, lngLo + lngHi, FALSE, n - 1)
         ELSE IF 2 * lat > latLo + latHi
              THEN << 1 >> \o GeoBits(2 * lat, latLo + latHi, 2 * latHi,
                                      2 * lng, 2 * lngLo, 2 * lngHi, TRUE, n - 1)
              ELSE << 0 >> \o GeoBits(2 * lat, 2 * latLo, latLo + latHi,
                                      2 * lng, 2 * lngLo, 2 * lngHi, TRUE, n - 1)

\* Five bits make one base-32 character; a character is modelled by its
\* index 0..31 in the geohash alphabet.
RECURSIVE GeoChars(_)
GeoChars(bits) ==
    IF Len(bits) < 5 THEN << >>
    ELSE << 16 * bits[1] + 8 * bits[2] + 4 * bits[3] + 2 * bits[4] + bits[5] >>
         \o GeoChars(SubSeq(bits, 6, Len(bits)))

\* encode_geohash(latitude, longitude, precision): degrees in, string out.
encode_geohash(latitude, longitude, precision) ==
    GeoChars(GeoBits(latitude, 0 - 90, 90, longitude, 0 - 180, 180, TRUE, 5 * precision))

\* Python's s[:n] for n >= 0.
Prefix(s, n) == SubSeq(s, 1, Min2(n, Len(s)))

\* check_geohash_proximity(geohash1, geohash2, precision_level)
check_geohash_proximity(geohash1, geohash2, precision_level) ==
    Prefix(geohash1, precision_level) = Prefix(geohash2, precision_level)

\* is_potential_duplicate_location(new_lat, new_lng, existing_geohash, proximity_precision)
is_potential_duplicate_location(new_lat, new_lng, existing_geohash, proximity_precision) ==
    check_geohash_proximity(encode_geohash(new_lat, new_lng, Len(existing_geohash)),
                            existing_geohash, proximity_precision)

\* A datetime: wall-clock seconds and, when aware, its UTC offset in seconds.
Naive(w)    == [wall |-> w, aware |-> FALSE, off |-> 0]
Aware(w, o) == [wall |-> w, aware |-> TRUE, off |-> o]
\* timestamp.replace(tzinfo=None): the offset is dropped, the wall clock kept.
StripTz(t)  == IF t.aware THEN Naive(t.wall) ELSE t

\* check_temporal_proximity(timestamp1, timestamp2, tolerance_minutes)
check_temporal_proximity(timestamp1, timestamp2, tolerance_minutes) ==
    LET t1 == StripTz(timestamp1)
        t2 == StripTz(timestamp2)
        time_diff == Abs(t1.wall - t2.wall)
    IN  time_diff <= tolerance_minutes * 60

ReasonBoth     == "Duplicate detected: Same location and time window"
ReasonLocation == "Potential duplicate: Same location, different time"

\* A variant that reports a duplicate only when the time matches as well.
is_potential_duplicate_NeedsTime(new_lat, new_lng, new_timestamp, existing_geohash, existing_timestamp, location_precision, time_tolerance_minutes) ==
    LET location_match == is_potential_duplicate_location(
                              new_lat, new_lng, existing_geohash, location_precision)
        time_match == check_temporal_proximity(
                              new_timestamp, existing_timestamp, time_tolerance_minutes)
    IN  IF location_match /\ time_match
        THEN [called |-> TRUE, is_duplicate |-> TRUE, reason |-> ReasonBoth]
        ELSE [called |-> TRUE, is_duplicate |-> FALSE, reason |-> None]

\* A variant with the two reasons exchanged.
is_potential_duplicate_SwappedReasons(new_lat, new_lng, new_timestamp, existing_geohash, existing_timestamp, location_precision, time_tolerance_minutes) ==
    LET location_match == is_potential_duplicate_location(
                              new_lat, new_lng, existing_geohash, location_precision)
        time_match == check_temporal_proximity(
                              new_timestamp, existing_timestamp, time_tolerance_minutes)
    IN  IF location_match /\ time_match
        THEN [called |-> TRUE, is_duplicate |-> TRUE, reason |-> ReasonLocation]
        ELSE IF location_match
        THEN [called |-> TRUE, is_duplicate |-> TRUE, reason |-> ReasonBoth]
        ELSE [called |-> TRUE, is_duplicate |-> FALSE, reason |-> None]

\* is_potential_duplicate(...) -> (is_duplicate, reason)
is_potential_duplicate(new_lat, new_lng, new_timestamp, existing_geohash, existing_timestamp, location_precision, time_tolerance_minutes) ==
    LET location_match == is_potential_duplicate_location(
                              new_lat, new_lng, existing_geohash, location_precision)
        time_match == check_temporal_proximity(
                              new_timestamp, existing_timestamp, time_tolerance_minutes)
    IN  IF location_match /\ time_match
        THEN [called |-> TRUE, is_duplicate |-> TRUE, reason |-> ReasonBoth]
        ELSE IF location_match
        THEN [called |-> TRUE, is_duplicate |-> TRUE, reason |-> ReasonLocation]
        ELSE [called |-> TRUE, is_duplicate |-> FALSE, reason |-> None]

\* Sample coordinates (degrees): cell boundaries of the one- and two-character
\* grids (22.5, 90) lie between neighbouring samples.
SampleLats == {22, 23, 50}
SampleLngs == {90, 91, 100}
SampleTimes == {Naive(0), Naive(1800), Naive(1801), Aware(7200, 21600), Aware(21600, 21600)}
\* The stored timestamp of the earlier report: midnight, naive or aware (UTC).
ExistingTimes == {Naive(0), Aware(0, 0)}
\* Coordinates of the new report: the samples and one beyond each range.
NewLats == SampleLats \cup {95}
NewLngs == SampleLngs \cup {190}
SampleTolerances == {0, 30}

DupIdle == /\ dupArgs = [new_lat |-> 0, new_lng |-> 0, new_timestamp |-> Naive(0),
                         existing_geohash |-> << >>, existing_timestamp |-> Naive(0),
                         location_precision |-> 0, time_tolerance_minutes |-> 0]
           /\ dupResult = NotCalled

\* The existing geohash is the stored geohash of an earlier report.
DupInit ==
    /\ \E nlat \in NewLats, nlng \in NewLngs, elat \in SampleLats,
          elng \in SampleLngs, len \in 1..MaxGeohashLen,
          prec \in 0..(MaxGeohashLen + 1), nts \in SampleTimes, ets \in ExistingTimes,
          tol \in SampleTolerances :
          dupArgs = [new_lat |-> nlat, new_lng |-> nlng, new_timestamp |-> nts,
                     existing_geohash |-> encode_geohash(elat, elng, len),
                     existing_timestamp |-> ets,
                     location_precision |-> prec, time_tolerance_minutes |-> tol]
    /\ dupResult = NotCalled

CallIsPotentialDuplicate ==
    /\ ~dupResult.called
    /\ dupResult' = is_potential_duplicate(
                        dupArgs.new_lat, dupArgs.new_lng, dupArgs.new_timestamp,
                        dupArgs.existing_geohash, dupArgs.existing_timestamp,
                        dupArgs.location_precision, dupArgs.time_tolerance_minutes)
    /\ UNCHANGED dupArgs


(***************************************************************************)
(* Collector scoring: _select_best_collector                               *)
(*                                                                         *)
(* A candidate is the dict built by _find_nearby_collectors: the user (id  *)
(* and reputation_score of the row), distance_km and active_quests.        *)
(* Scores are exact rationals: every candidate of a pool gets the same     *)
(* positive denominator, so [num, den] orders as the quotient does.        *)
(***************************************************************************)

\* Bounds of the pools drawn for the scoring specification.
MaxPool       == 2
MaxScoreInput == 2

RECURSIVE SeqMax(_, _)
SeqMax(s, field) ==
    IF Len(s) = 1 THEN s[1][field]
    ELSE Max2(s[1][field], SeqMax(Tail(s), field))

\* max(...) or 1.0
MaxReputation(collectors) ==
    LET m == SeqMax(collectors, "reputation_score") IN IF m = 0 THEN 1 ELSE m

\* The three normalised scores of one candidate as numerator/denominator.
DistanceScore(c, max_distance) ==
    IF max_distance > 0 THEN [num |-> max_distance - c.distance_km, den |-> max_distance]
                        ELSE [num |-> 1, den |-> 1]
WorkloadScore(c, max_active) ==
    IF max_active > 0 THEN [num |-> max_active - c.active_quests, den |-> max_active]
                      ELSE [num |-> 1, den |-> 1]
ReputationScore(c, max_reputation) ==
    IF max_reputation > 0 THEN [num |-> c.reputation_score, den |-> max_reputation]
                          ELSE [num |-> 1, den |-> 2]

\* distance_score * 0.40 + workload_score * 0.40 + reputation_score * 0.20
CompositeScoreHeavyReputation(c, collectors) ==
    LET ds == DistanceScore(c, SeqMax(collectors, "distance_km"))
        ws == WorkloadScore(c, SeqMax(collectors, "active_quests"))
        rs == ReputationScore(c, MaxReputation(collectors))
    IN  [num |-> 40 * ds.num * ws.den * rs.den + 40 * ws.num * ds.den * rs.den
                 + 40 * rs.num * ds.den * ws.den,
         den |-> 100 * ds.den * ws.den * rs.den]
CompositeScore(c, collectors) ==
    LET ds == DistanceScore(c, SeqMax(collectors, "distance_km"))
        ws == WorkloadScore(c, SeqMax(collectors, "active_quests"))
        rs == ReputationScore(c, MaxReputation(collectors))
    IN  [num |-> 40 * ds.num * ws.den * rs.den + 40 * ws.num * ds.den * rs.den
                 + 20 * rs.num * ds.den * ws.den,
         den |-> 100 * ds.den * ws.den * rs.den]

\* scored_collectors: every candidate with its "score"
ScoredCollectors(collectors) ==
    [i \in 1..Len(collectors) |->
        [user |-> collectors[i].user,
         reputation_score |-> collectors[i].reputation_score,
         distance_km |-> collectors[i].distance_km,
         active_quests |-> collectors[i].active_quests,
         score |-> CompositeScore(collectors[i], collectors)]]

\* max(scored_collectors, key=score): the first candidate of the highest
\* score.  The scores of one pool share their denominator, so the
\* numerators decide.
RECURSIVE FirstMaxLast(_, _)
FirstMaxLast(scored, i) ==
    IF i = Len(scored) THEN i
    ELSE LET j == FirstMaxLast(scored, i + 1)
         IN  IF scored[i].score.num > scored[j].score.num THEN i ELSE j
RECURSIVE FirstMax(_, _)
FirstMax(scored, i) ==
    IF i = Len(scored) THEN i
    ELSE LET j == FirstMax(scored, i + 1)
         IN  IF scored[i].score.num >= scored[j].score.num THEN i ELSE j

\* _select_best_collector(collectors): None for an empty list
select_best_collector(collectors) ==
    IF collectors = << >> THEN [called |-> TRUE, found |-> FALSE]
    ELSE LET scored == ScoredCollectors(collectors)
             b == scored[FirstMax(scored, 1)]
         IN  [called |-> TRUE, found |-> TRUE, user |-> b.user,
              reputation_score |-> b.reputation_score, distance_km |-> b.distance_km,
              active_quests |-> b.active_quests, score |-> b.score]

\* The query returns the candidates ordered by distance.
SortedByDistance(s) ==
    \A i \in 1..(Len(s) - 1) : s[i].distance_km <= s[i + 1].distance_km

RECURSIVE SeqsUpTo(_, _)
SeqsUpTo(S, n) ==
    IF n = 0 THEN {<< >>}
    ELSE LET shorter == SeqsUpTo(S, n - 1)
         IN  shorter \cup {Append(s, x) : s \in {t \in shorter : Len(t) = n - 1}, x \in S}

\* Pools of up to MaxPool distinct users, ordered by distance, with every
\* reputation, distance and workload up to MaxScoreInput.
ScoreUsers == << "c1", "c2", "c3", "c4" >>
SampleInputs == (0..MaxScoreInput) \X (0..MaxScoreInput) \X (0..MaxScoreInput)
PoolOf(f) ==
    [i \in DOMAIN f |-> [user |-> ScoreUsers[i], reputation_score |-> f[i][1],
                         distance_km |-> f[i][2], active_quests |-> f[i][3]]]

ScoreIdle == pool = << >> /\ best = NotCalled

ScoreInit ==
    /\ \E n \in 0..MaxPool : \E f \in [1..n -> SampleInputs] :
           /\ SortedByDistance(PoolOf(f))
           /\ pool = PoolOf(f)
    /\ best = NotCalled

CallSelectBestCollector ==
    /\ ~best.called
    /\ best' = select_best_collector(pool)
    /\ UNCHANGED pool


(***************************************************************************)
(* Automatic assignment: CollectorAssignmentService over the database      *)
(*                                                                         *)
(* Every point lies on the equator, so a location is its longitude, kept   *)
(* in millidegrees.  ST_Distance on SRID 4326 geometries is the planar     *)
(* distance in degrees (routers/disposal.py reads it as such).             *)
(***************************************************************************)

MAX_SEARCH_RADIUS_KM   == 10
EXPAND_RADIUS_STEP_KM  == 5
MAX_RADIUS_KM          == 50
STALE_LOCATION_MINUTES == 60

\* Bounds of the assignment specification.
MaxTicks      == 1
MaxConcurrent == 2

Collectors == {"c1", "c2"}
QuestIds   == {"q1", "q2"}
\* The coroutines running assign_collector_to_quest, one call each.
Procs      == {"a", "b"}

QuestStatus == {"reported", "assigned", "in_progress", "completed", "verified", "rejected"}
ActiveStatus == {"assigned", "in_progress"}
CollectorStatus == {"available", "busy", "offline"}
AvailabilityRequests == {"available"}

\* Rows of quests that count as a collector's active quests.
ActiveCount(c) ==
    Cardinality({q \in QuestIds : quests[q].collector_id = c
                                  /\ quests[q].status \in ActiveStatus})

\* ST_Distance(ST_Point(lng, lat), quest_point), in millidegrees.
ST_DistanceMilliDeg(lng, quest_lng) == Abs(lng - quest_lng)
\* "distance <= radius_meters": the degrees are compared with the metres.
WithinRadius(lng, quest_lng, radius_km) ==
    ST_DistanceMilliDeg(lng, quest_lng) <= (radius_km * 1000) * 1000

\* A variant of the WHERE clause that admits a collector at capacity.
IsCandidateUpToCapacity(c, quest_lng, radius_km) ==
    /\ users[c].user_type = "collector"
    /\ users[c].is_active
    /\ users[c].collector_status = "available"
    /\ users[c].current_location_lat # NoValue
    /\ users[c].current_location_lng # NoValue
    /\ users[c].last_location_update # NoValue
    /\ users[c].last_location_update >= now - STALE_LOCATION_MINUTES
    /\ WithinRadius(users[c].current_location_lng, quest_lng, radius_km)
    /\ ActiveCount(c) <= users[c].max_concurrent_quests

\* The WHERE clause of the candidate query.
IsCandidate(c, quest_lng, radius_km) ==
    /\ users[c].user_type = "collector"
    /\ users[c].is_active
    /\ users[c].collector_status = "available"
    /\ users[c].current_location_lat # NoValue
    /\ users[c].current_location_lng # NoValue
    /\ users[c].last_location_update # NoValue
    /\ users[c].last_location_update >= now - STALE_LOCATION_MINUTES
    /\ WithinRadius(users[c].current_location_lng, quest_lng, radius_km)
    /\ ActiveCount(c) < users[c].max_concurrent_quests

\* One row of the result as the dict of the returned list.  distance_km is
\* row[1] / 1000.0: degrees / 1000, kept here in units of 10^-6.
CandidateRow(c, quest_lng) ==
    [user |-> c,
     reputation_score |-> users[c].reputation_score,
     distance_km |-> ST_DistanceMilliDeg(users[c].current_location_lng, quest_lng),
     active_quests |-> ActiveCount(c)]

\* ORDER BY distance_meters: rows of equal distance come in any order.
find_nearby_collectors(quest_lng, radius_km) ==
    LET found == {c \in Collectors : IsCandidate(c, quest_lng, radius_km)}
        rows  == {CandidateRow(c, quest_lng) : c \in found}
    IN  {s \in SeqsUpTo(rows, Cardinality(rows)) :
            /\ Len(s) = Cardinality(rows)
            /\ {s[i] : i \in 1..Len(s)} = rows
            /\ SortedByDistance(s)}

IdleCall == [pc |-> "idle", quest |-> None, quest_lng |-> 0, current_radius |-> 0,
             collectors |-> << >>, result |-> NotCalled, id |-> 0, queries |-> 0]

\* assign_collector_to_quest, up to the first candidate query: the quest's
\* location is extracted and the radius starts at MAX_SEARCH_RADIUS_KM.
\* The coroutines are named in the order their calls start.
StartCall(p, q) ==
    /\ call[p].pc = "idle"
    /\ call[p].id = 0
    /\ p = "b" => call["a"].id # 0
    /\ call' = [call EXCEPT ![p] = [IdleCall EXCEPT !.pc = "query", !.quest = q,
                                        !.quest_lng = quests[q].location_lng,
                                        !.current_radius = MAX_SEARCH_RADIUS_KM,
                                        !.id = callCount + 1]]
    /\ callCount' = callCount + 1
    /\ UNCHANGED << users, quests, history, now >>

\* await self._find_nearby_collectors(...): the database runs the query.
\* "queries" counts the passes of the while loop the call has made.
FindNearbyCollectors(p) ==
    /\ call[p].pc = "query"
    /\ \E rows \in find_nearby_collectors(call[p].quest_lng, call[p].current_radius) :
          call' = [call EXCEPT ![p].collectors = rows, ![p].pc = "rows",
                              ![p].queries = @ + 1]
    /\ UNCHANGED << users, quests, history, now, callCount >>

\* _assign_quest: the quest row and the history entry
AssignedQuest(q, collector_info) ==
    [quests[q] EXCEPT !.collector_id = collector_info.user,
                      !.status = "assigned",
                      !.assigned_at = now]
SuccessEntryLiveWorkload(q, collector_info, distance_km, id) ==
    [quest_id |-> q, assigned_collector_id |-> collector_info.user,
     assignment_method |-> "automatic", assignment_reason |-> "Best match",
     distance_km |-> distance_km,
     collector_workload_at_assignment |-> ActiveCount(collector_info.user),
     was_successful |-> TRUE, failure_reason |-> None, call |-> id]
SuccessEntry(q, collector_info, distance_km, id) ==
    [quest_id |-> q, assigned_collector_id |-> collector_info.user,
     assignment_method |-> "automatic", assignment_reason |-> "Best match",
     distance_km |-> distance_km,
     collector_workload_at_assignment |-> collector_info.active_quests,
     was_successful |-> TRUE, failure_reason |-> None, call |-> id]
\* _log_assignment_failure: the history entry
FailureEntry(q, reason, id) ==
    [quest_id |-> q, assigned_collector_id |-> None,
     assignment_method |-> "automatic", assignment_reason |-> "Assignment failed",
     distance_km |-> NoValue, collector_workload_at_assignment |-> NoValue,
     was_successful |-> FALSE, failure_reason |-> reason, call |-> id]

\* The coroutine resumes with a non-empty list: select, assign, return.
AssignBestRechecked(p) ==
    /\ call[p].pc = "rows"
    /\ call[p].collectors # << >>
    /\ LET best_collector == select_best_collector(call[p].collectors)
           q == call[p].quest
       IN  /\ best_collector.found
           /\ IF ActiveCount(best_collector.user)
                     < users[best_collector.user].max_concurrent_quests
              THEN /\ quests' = [quests EXCEPT ![q] = AssignedQuest(q, best_collector)]
                   /\ history' = Append(history, SuccessEntry(q, best_collector,
                                                 best_collector.distance_km, call[p].id))
                   /\ call' = [call EXCEPT ![p].pc = "done",
                                  ![p].result = [called |-> TRUE,
                                                 user |-> best_collector.user,
                                                 message |-> "Assigned to collector",
                                                 distance_km |-> best_collector.distance_km]]
              ELSE /\ call' = [call EXCEPT ![p].pc = "query"]
                   /\ UNCHANGED << quests, history >>
    /\ UNCHANGED << users, now, callCount >>
AssignBest(p) ==
    /\ call[p].pc = "rows"
    /\ call[p].collectors # << >>
    /\ LET best_collector == select_best_collector(call[p].collectors)
           q == call[p].quest
       IN  /\ best_collector.found
           /\ quests' = [quests EXCEPT ![q] = AssignedQuest(q, best_collector)]
           /\ history' = Append(history, SuccessEntry(q, best_collector,
                                         best_collector.distance_km, call[p].id))
           /\ call' = [call EXCEPT ![p].pc = "done",
                          ![p].result = [called |-> TRUE, user |-> best_collector.user,
                                         message |-> "Assigned to collector",
                                         distance_km |-> best_collector.distance_km]]
    /\ UNCHANGED << users, now, callCount >>

\* The coroutine resumes with an empty list: the next radius is tried.
ExpandRadiusPastMaximum(p) ==
    /\ call[p].pc = "rows"
    /\ call[p].collectors = << >>
    /\ call[p].current_radius <= MAX_RADIUS_KM
    /\ call' = [call EXCEPT ![p].current_radius = @ + EXPAND_RADIUS_STEP_KM,
                            ![p].pc = "query"]
    /\ UNCHANGED << users, quests, history, now, callCount >>
ExpandRadius(p) ==
    /\ call[p].pc = "rows"
    /\ call[p].collectors = << >>
    /\ call[p].current_radius + EXPAND_RADIUS_STEP_KM <= MAX_RADIUS_KM
    /\ call' = [call EXCEPT ![p].current_radius = @ + EXPAND_RADIUS_STEP_KM,
                            ![p].pc = "query"]
    /\ UNCHANGED << users, quests, history, now, callCount >>

\* The loop ends without a candidate: the failure is logged and returned.
LogAssignmentFailureSilent(p) ==
    /\ call[p].pc = "rows"
    /\ call[p].collectors = << >>
    /\ call[p].current_radius + EXPAND_RADIUS_STEP_KM > MAX_RADIUS_KM
    /\ call' = [call EXCEPT ![p].current_radius = @ + EXPAND_RADIUS_STEP_KM,
                            ![p].pc = "done",
                            ![p].result = [called |-> TRUE, user |-> None,
                                message |-> "No collectors available in your area",
                                distance_km |-> NoValue]]
    /\ UNCHANGED << users, quests, history, now, callCount >>
LogAssignmentFailure(p) ==
    /\ call[p].pc = "rows"
    /\ call[p].collectors = << >>
    /\ call[p].current_radius + EXPAND_RADIUS_STEP_KM > MAX_RADIUS_KM
    /\ history' = Append(history, FailureEntry(call[p].quest,
                             "No available collectors within 50km", call[p].id))
    /\ call' = [call EXCEPT ![p].current_radius = @ + EXPAND_RADIUS_STEP_KM,
                            ![p].pc = "done",
                            ![p].result = [called |-> TRUE, user |-> None,
                                message |-> "No collectors available in your area",
                                distance_km |-> NoValue]]
    /\ UNCHANGED << users, quests, now, callCount >>

\* A call that starts when no other call is running.
StartCallAlone(p, q) ==
    /\ \A o \in Procs \ {p} : call[o].pc \in {"idle", "done"}
    /\ StartCall(p, q)

\* POST /quests/{id}/complete by the quest's collector: the quest leaves
\* assigned / in_progress, for verified or for completed (under review).
CompleteAssignedQuest(q, verified) ==
    /\ quests[q].collector_id # None
    /\ quests[q].status \in ActiveStatus
    /\ quests' = [quests EXCEPT ![q].status = IF verified THEN "verified" ELSE "completed"]
    /\ UNCHANGED << users, history, now, call, callCount >>

\* PATCH /collectors/me/availability.  The requests drawn are those of a
\* collector coming back: AvailabilityRequests.
update_collector_availability(c, status) ==
    /\ users[c].user_type = "collector"
    /\ users[c].collector_status # status
    /\ users' = [users EXCEPT ![c].collector_status = status]
    /\ UNCHANGED << quests, history, now, call, callCount >>

\* Time passes, one staleness period at a time.
Tick ==
    /\ now < (2 + MaxTicks) * STALE_LOCATION_MINUTES
    /\ now' = now + STALE_LOCATION_MINUTES
    /\ UNCHANGED << users, quests, history, call, callCount >>


\* A collector row as registration leaves it, with a location reported at
\* minute llu.
CollectorRow(lng, llu, max_quests, reputation) ==
    [user_type |-> "collector", is_active |-> TRUE, collector_status |-> "available",
     current_location_lat |-> 0, current_location_lng |-> lng,
     last_location_update |-> llu, max_concurrent_quests |-> max_quests,
     reputation_score |-> reputation]

\* Longitudes about 5 km, 12 km and 60 km east of the quests.
SampleCollectorLngs == {45, 108, 540}

\* Rows of the first collector: every place and capacity with a fresh
\* location, one with an ageing location, and rows the query must skip.
FirstCollectorRows ==
    {CollectorRow(lng, 2 * STALE_LOCATION_MINUTES, m, 0) :
        lng \in SampleCollectorLngs, m \in 1..MaxConcurrent}
    \cup {CollectorRow(45, STALE_LOCATION_MINUTES, 1, 2),
          [CollectorRow(45, 2 * STALE_LOCATION_MINUTES, 1, 0) EXCEPT !.user_type = "citizen"],
          [CollectorRow(45, 2 * STALE_LOCATION_MINUTES, 1, 0) EXCEPT !.is_active = FALSE],
          [CollectorRow(45, 2 * STALE_LOCATION_MINUTES, 1, 0) EXCEPT !.collector_status = "offline"],
          [CollectorRow(45, 2 * STALE_LOCATION_MINUTES, 1, 0) EXCEPT !.collector_status = "busy"],
          [CollectorRow(45, 2 * STALE_LOCATION_MINUTES, 1, 0) EXCEPT
               !.current_location_lat = NoValue, !.current_location_lng = NoValue,
               !.last_location_update = NoValue]}
\* The second collector is about 12 km away, with room for one quest.
SecondCollectorRows == {CollectorRow(108, 2 * STALE_LOCATION_MINUTES, 1, 1)}

QuestRow(status, collector_id, assigned_at) ==
    [status |-> status, collector_id |-> collector_id, assigned_at |-> assigned_at,
     location_lng |-> 0]
FirstQuestRows ==
    {QuestRow("reported", None, NoValue), QuestRow("assigned", "c1", 0),
     QuestRow("in_progress", "c2", 0), QuestRow("verified", "c1", 0)}
SecondQuestRows ==
    {QuestRow("reported", None, NoValue), QuestRow("in_progress", "c1", 0)}

AssignIdle ==
    /\ users = [c \in Collectors |-> CollectorRow(0, 0, 1, 0)]
    /\ quests = [q \in QuestIds |-> QuestRow("reported", None, NoValue)]
    /\ history = << >>
    /\ now = 0
    /\ call = [p \in Procs |-> IdleCall]
    /\ callCount = 0

\* No collector starts above capacity.
AssignInit ==
    /\ \E u1 \in FirstCollectorRows, u2 \in SecondCollectorRows :
          users = [c \in Collectors |-> IF c = "c1" THEN u1 ELSE u2]
    /\ \E r1 \in FirstQuestRows, r2 \in SecondQuestRows :
          quests = [q \in QuestIds |-> IF q = "q1" THEN r1 ELSE r2]
    /\ \A c \in Collectors : ActiveCount(c) <= users[c].max_concurrent_quests
    /\ history = << >>
    /\ now = 2 * STALE_LOCATION_MINUTES
    /\ call = [p \in Procs |-> IdleCall]
    /\ callCount = 0

(***************************************************************************)
(* Behavioural fraud scoring: FraudDetectionService                        *)
(*                                                                         *)
(* Times are minutes.  A quest location is (lat, lng) in units of 1/1110   *)
(* degree north and east of (0, 0): 0.1 km under the service's own         *)
(* "1 degree = 111 km".  Scores are exact rationals [num, den].            *)
(***************************************************************************)

ANALYSIS_WINDOW_DAYS               == 7
SUSPICIOUS_COMPLETION_TIME_MINUTES == 5
MAX_QUESTS_PER_HOUR_THRESHOLD      == 5
MIN_QUESTS_FOR_ANALYSIS            == 3
\* Weights, in hundredths.
WEIGHT_RAPID_COMPLETIONS   == 25
WEIGHT_LOCATION_CLUSTERING == 30
WEIGHT_HIGH_FREQUENCY      == 20
WEIGHT_REJECTION_RATE      == 25

\* Bounds of the fraud specification: quests drawn freely, copies of one
\* more quest, and runs of the analysis.
MaxVaried    == 2
MaxBulk      == 10
MaxFraudRuns == 2

\* datetime.utcnow() of the runs: day 8, 00:00.
FraudNow    == (ANALYSIS_WINDOW_DAYS + 1) * 1440
WindowStart == FraudNow - ANALYSIS_WINDOW_DAYS * 1440

RECURSIVE SumSeq(_)
SumSeq(s) == IF s = << >> THEN 0 ELSE Head(s) + SumSeq(Tail(s))
RECURSIVE MinSeq(_)
MinSeq(s) == IF Len(s) = 1 THEN s[1] ELSE Min2(s[1], MinSeq(Tail(s)))
RECURSIVE MaxSeq(_)
MaxSeq(s) == IF Len(s) = 1 THEN s[1] ELSE Max2(s[1], MaxSeq(Tail(s)))
RECURSIVE MaxOfSet(_)
MaxOfSet(S) == LET x == CHOOSE y \in S : TRUE
               IN  IF S = {x} THEN x ELSE Max2(x, MaxOfSet(S \ {x}))

\* The query: the collector's verified or rejected quests completed in the window.
InWindow(q) ==
    /\ q.status \in {"verified", "rejected"}
    /\ q.completed_at # NoValue
    /\ q.completed_at >= WindowStart
RecentQuests(all) == SelectSeq(all, InWindow)

\* _analyze_timing_patterns
HasDuration(q) == q.assigned_at # NoValue /\ q.completed_at # NoValue
Duration(q) == q.completed_at - q.assigned_at
IsRapid(q) == HasDuration(q) /\ Duration(q) < SUSPICIOUS_COMPLETION_TIME_MINUTES
analyze_timing_patterns(qs) ==
    LET timed == SelectSeq(qs, HasDuration)
        completion_times == [i \in 1..Len(timed) |-> Duration(timed[i])]
    IN  [avg_time |-> IF completion_times # << >>
                      THEN [num |-> SumSeq(completion_times), den |-> Len(completion_times)]
                      ELSE [num |-> NoValue, den |-> 1],
         min_time |-> IF completion_times # << >> THEN MinSeq(completion_times) ELSE NoValue,
         max_time |-> IF completion_times # << >> THEN MaxSeq(completion_times) ELSE NoValue,
         suspicious_rapid_count |-> Cardinality({i \in 1..Len(qs) : IsRapid(qs[i])})]

\* The geohash-7 cell of a coordinate x >= 0: cells are 360/2^18 degrees
\* wide from 0, and a point on a cell's upper edge belongs to it.
GeohashCell7(x) == (x * 16384 + 24974) \div 24975 - 1

\* _analyze_location_patterns.  The area is kept in units of 0.01 km2, so
\* the floor of 0.01 km2 is 1 and the density is 100 * n / area.
analyze_location_patterns(qs) ==
    LET lats == [i \in 1..Len(qs) |-> qs[i].lat]
        lngs == [i \in 1..Len(qs) |-> qs[i].lng]
        geohashes == {<< GeohashCell7(qs[i].lat), GeohashCell7(qs[i].lng) >> :
                          i \in 1..Len(qs)}
        area == IF Len(qs) > 1
                THEN Max2((MaxSeq(lats) - MinSeq(lats)) * (MaxSeq(lngs) - MinSeq(lngs)), 1)
                ELSE 1
    IN  [unique_count |-> Cardinality(geohashes),
         \* the average haversine distance from the centroid is not computed
         \* here: only whether there is one
         has_cluster_radius |-> Len(qs) > 1,
         max_density |-> IF Len(qs) > 1 THEN [num |-> 100 * Len(qs), den |-> area]
                                        ELSE [num |-> 0, den |-> 1]]

\* _analyze_frequency_patterns
analyze_frequency_patterns(qs) ==
    LET done == SelectSeq(qs, LAMBDA q : q.completed_at # NoValue)
        days == {done[i].completed_at \div 1440 : i \in 1..Len(done)}
        hours == {done[i].completed_at \div 60 : i \in 1..Len(done)}
        InHour(h) == Cardinality({i \in 1..Len(done) : done[i].completed_at \div 60 = h})
    IN  IF qs = << >> THEN [per_day_avg |-> [num |-> 0, den |-> 1], max_per_hour |-> 0]
        ELSE [per_day_avg |-> IF days # {} THEN [num |-> Len(done), den |-> Cardinality(days)]
                                           ELSE [num |-> 0, den |-> 1],
              max_per_hour |-> IF hours # {} THEN MaxOfSet({InHour(h) : h \in hours}) ELSE 0]

\* _analyze_rejection_rate
IsRejected(q) == q.status = "rejected"
analyze_rejection_rate(qs) ==
    [total |-> Len(qs), rejected |-> Cardinality({i \in 1..Len(qs) : IsRejected(qs[i])}),
     rejection_rate |-> IF Len(qs) > 0 THEN [num |-> Cardinality({i \in 1..Len(qs) : IsRejected(qs[i])}), den |-> Len(qs)]
                                       ELSE [num |-> 0, den |-> 1]]

\* A variant of the frequency trigger that needs more than the threshold.
FrequencyTriggeredAbove(f) == f.max_per_hour > MAX_QUESTS_PER_HOUR_THRESHOLD

\* The four indicators: whether each is triggered, and its capped score.
RapidTriggered(t) == t.suspicious_rapid_count > 0
ClusterTriggered(l) == l.max_density.num > 10 * l.max_density.den
FrequencyTriggered(f) == f.max_per_hour >= MAX_QUESTS_PER_HOUR_THRESHOLD
RejectionTriggered(r) == 10 * r.rejection_rate.num > 3 * r.rejection_rate.den

\* min(x, 1.0) of a rational
Cap1(x) == IF x.num >= x.den THEN [num |-> 1, den |-> 1] ELSE x

\* A variant that leaves the rejection rate out of the sum.
CalculatedRiskNoRejection(n, t, l, f, r) ==
    LET rapid   == Cap1([num |-> t.suspicious_rapid_count, den |-> n])
        cluster == Cap1([num |-> l.max_density.num, den |-> 50 * l.max_density.den])
        freq    == Cap1([num |-> f.max_per_hour, den |-> 10])
        Term(on, w, x, others) == IF on THEN w * x.num * others ELSE 0
        d == rapid.den * cluster.den * freq.den
        total ==
            Term(RapidTriggered(t), WEIGHT_RAPID_COMPLETIONS, rapid, cluster.den * freq.den)
            + Term(ClusterTriggered(l), WEIGHT_LOCATION_CLUSTERING, cluster,
                   rapid.den * freq.den)
            + Term(FrequencyTriggered(f), WEIGHT_HIGH_FREQUENCY, freq,
                   rapid.den * cluster.den)
    IN  Cap1([num |-> total, den |-> 100 * d])

\* calculated_risk = min(sum(fraud_scores), 1.0); the terms are brought to
\* the denominator 100 * n * area * 10.
CalculatedRisk(n, t, l, f, r) ==
    LET rapid   == Cap1([num |-> t.suspicious_rapid_count, den |-> n])
        cluster == Cap1([num |-> l.max_density.num, den |-> 50 * l.max_density.den])
        freq    == Cap1([num |-> f.max_per_hour, den |-> 10])
        reject  == r.rejection_rate
        Term(on, w, x, others) == IF on THEN w * x.num * others ELSE 0
        d == rapid.den * cluster.den * freq.den * reject.den
        total ==
            Term(RapidTriggered(t), WEIGHT_RAPID_COMPLETIONS, rapid,
                 cluster.den * freq.den * reject.den)
            + Term(ClusterTriggered(l), WEIGHT_LOCATION_CLUSTERING, cluster,
                   rapid.den * freq.den * reject.den)
            + Term(FrequencyTriggered(f), WEIGHT_HIGH_FREQUENCY, freq,
                   rapid.den * cluster.den * reject.den)
            + Term(RejectionTriggered(r), WEIGHT_REJECTION_RATE, reject,
                   rapid.den * cluster.den * freq.den)
    IN  Cap1([num |-> total, den |-> 100 * d])

FraudFlags(t, l, f, r) ==
    (IF RapidTriggered(t) THEN {"impossible_timing"} ELSE {})
    \cup (IF ClusterTriggered(l) THEN {"location_clustering"} ELSE {})
    \cup (IF FrequencyTriggered(f) THEN {"high_frequency_spike"} ELSE {})
    \cup (IF RejectionTriggered(r) THEN {"high_rejection_rate"} ELSE {})

\* _create_neutral_pattern
create_neutral_pattern ==
    [called |-> TRUE, unique_locations_count |-> 0, quests_completed_count |-> 0,
     suspicious_rapid_completions |-> 0, max_quests_in_hour |-> 0,
     calculated_risk_score |-> [num |-> 0, den |-> 1],
     fraud_flags |-> {"insufficient_data"},
     analyses |-> {}, persisted |-> FALSE]

\* The pattern of a full analysis of the quests qs; "analyses" records the
\* sub-analyses performed.
FullPattern(qs) ==
    LET t == analyze_timing_patterns(qs)
        l == analyze_location_patterns(qs)
        f == analyze_frequency_patterns(qs)
        r == analyze_rejection_rate(qs)
    IN  [called |-> TRUE, unique_locations_count |-> l.unique_count,
         quests_completed_count |-> Len(qs),
         suspicious_rapid_completions |-> t.suspicious_rapid_count,
         max_quests_in_hour |-> f.max_per_hour,
         calculated_risk_score |-> CalculatedRisk(Len(qs), t, l, f, r),
         fraud_flags |-> FraudFlags(t, l, f, r),
         analyses |-> {"timing", "location", "frequency", "rejection"},
         persisted |-> TRUE]

\* len(quests) < MIN_QUESTS_FOR_ANALYSIS
InsufficientDataBelowTwo(qs) == Len(qs) < MIN_QUESTS_FOR_ANALYSIS - 1
InsufficientData(qs) == Len(qs) < MIN_QUESTS_FOR_ANALYSIS

\* analyze_collector_behavior: the insufficient-data return
AnalyzeNeutral ==
    /\ fraudRun.runs < MaxFraudRuns
    /\ InsufficientData(RecentQuests(fraudQuests))
    /\ fraudRun' = [pattern |-> create_neutral_pattern, runs |-> fraudRun.runs + 1]
    /\ UNCHANGED << fraudQuests, fraudUser, patterns >>

\* analyze_collector_behavior: the analysis, the snapshot and the user's row
AnalyzeFull ==
    /\ fraudRun.runs < MaxFraudRuns
    /\ ~InsufficientData(RecentQuests(fraudQuests))
    /\ LET pattern == FullPattern(RecentQuests(fraudQuests))
       IN  /\ fraudRun' = [pattern |-> pattern, runs |-> fraudRun.runs + 1]
           /\ patterns' = Append(patterns, pattern)
           /\ fraudUser' = IF fraudUser.exists
                           THEN [fraudUser EXCEPT
                                    !.fraud_risk_score = pattern.calculated_risk_score,
                                    !.last_fraud_check = FraudNow]
                           ELSE fraudUser
    /\ UNCHANGED fraudQuests

FraudQuest(status, assigned_at, completed_at, lat, lng) ==
    [status |-> status, assigned_at |-> assigned_at, completed_at |-> completed_at,
     lat |-> lat, lng |-> lng]

\* Quests drawn freely: a slow completion at the origin or 1 km off, a rapid
\* and an untimed one in the window and one before it, in every status the
\* collector's finished quests take.
VariedQuests ==
    {FraudQuest(st, x[1], x[2], x[3], x[3]) :
        st \in {"verified", "rejected", "completed"},
        x \in {<< FraudNow - 600, FraudNow - 500, 0 >>, << FraudNow - 600, FraudNow - 500, 10 >>,
               << FraudNow - 404, FraudNow - 400, 0 >>, << NoValue, FraudNow - 300, 0 >>,
               << WindowStart - 100, WindowStart - 1, 0 >>}}
\* The quest that comes in copies: completed within one hour at the origin,
\* rapid in any status, or verified on the edge of rapid.
BulkQuests ==
    {FraudQuest(st, FraudNow - 124, FraudNow - 120, 0, 0) :
        st \in {"verified", "rejected", "completed"}}
    \cup {FraudQuest("verified", FraudNow - 125, FraudNow - 120, 0, 0)}

\* ORDER BY completed_at
SortedByCompletion(s) ==
    \A i \in 1..(Len(s) - 1) : s[i].completed_at <= s[i + 1].completed_at

FraudIdle ==
    /\ fraudQuests = << >>
    /\ fraudUser = [exists |-> TRUE, fraud_risk_score |-> [num |-> 0, den |-> 1],
                    last_fraud_check |-> NoValue]
    /\ patterns = << >>
    /\ fraudRun = [pattern |-> NotCalled, runs |-> 0]

FraudInit ==
    /\ \E varied \in SeqsUpTo(VariedQuests, MaxVaried), b \in BulkQuests, k \in 0..MaxBulk :
          /\ SortedByCompletion(varied)
          /\ fraudQuests = varied \o [i \in 1..k |-> b]
    /\ fraudUser = [exists |-> TRUE, fraud_risk_score |-> [num |-> 0, den |-> 1],
                    last_fraud_check |-> NoValue]
    /\ patterns = << >>
    /\ fraudRun = [pattern |-> NotCalled, runs |-> 0]

(***************************************************************************)
(* Dynamic threshold and quest completion                                  *)
(*                                                                         *)
(* Scores and thresholds are kept in hundredths.  The base threshold is    *)
(* a float setting without validation (core/config.py).                    *)
(***************************************************************************)

\* Base thresholds are drawn in steps of 0.05 from 0 up to this many steps.
MaxBaseSteps == 21

\* A variant whose bands are closed above: 0.2, 0.5 and 0.7 fall in the lower band.
get_dynamic_ai_threshold_ClosedBands(fraud_risk_score) ==
    LET base_threshold == settings.AI_VERIFICATION_CONFIDENCE_THRESHOLD
    IN  IF fraud_risk_score <= 20 THEN Max2(base_threshold - 10, 50)
        ELSE IF fraud_risk_score <= 50 THEN base_threshold
        ELSE IF fraud_risk_score <= 70 THEN Min2(base_threshold + 10, 90)
        ELSE Min2(base_threshold + 15, 95)

\* get_dynamic_ai_threshold(fraud_risk_score)
get_dynamic_ai_threshold(fraud_risk_score) ==
    LET base_threshold == settings.AI_VERIFICATION_CONFIDENCE_THRESHOLD
    IN  IF fraud_risk_score < 20 THEN Max2(base_threshold - 10, 50)
        ELSE IF fraud_risk_score < 50 THEN base_threshold
        ELSE IF fraud_risk_score < 70 THEN Min2(base_threshold + 10, 90)
        ELSE Min2(base_threshold + 15, 95)

SampleBases == {5 * k : k \in 0..MaxBaseSteps}
SampleRisks == {0, 10, 19, 20, 21, 35, 49, 50, 51, 60, 69, 70, 71, 100}
\* Confidence scores returned by the AI verification; NoValue: it raised.
SampleConfidences == {0, 50, 60, 70, 75, 80, 85, 90, 95, 100}

\* The threshold for the completing collector's fraud_risk_score.
CallGetDynamicAiThreshold ==
    /\ ~threshold.called
    /\ threshold' = [called |-> TRUE, fraud_risk_score |-> completion.fraud_risk_score,
                     value |-> get_dynamic_ai_threshold(completion.fraud_risk_score)]
    /\ UNCHANGED << settings, completion >>

\* auto_flag_low_confidence_quest: a pending review unless the score
\* reaches the base threshold or one is pending already.
auto_flag_low_confidence_quest(confidence_score, reviews) ==
    IF confidence_score >= settings.AI_VERIFICATION_CONFIDENCE_THRESHOLD THEN reviews
    ELSE IF reviews > 0 THEN reviews
    ELSE reviews + 1

\* complete_quest by the current user, with or without both photos; the
\* AI verification returns confidence ai, or raises (ai = NoValue).
complete_quest(is_owner, has_photos, ai) ==
    IF ~is_owner
    THEN /\ completion' = [completion EXCEPT !.response = 403]
         /\ UNCHANGED << settings, threshold >>
    ELSE IF completion.status \notin {"assigned", "in_progress"} \/ ~has_photos
    THEN /\ completion' = [completion EXCEPT !.response = 400]
         /\ UNCHANGED << settings, threshold >>
    ELSE /\ completion' =
              IF ai = NoValue
              THEN [completion EXCEPT
                       !.status = "completed", !.response = 200,
                       !.reviews = auto_flag_low_confidence_quest(0, @)]
              ELSE IF ai >= settings.AI_VERIFICATION_CONFIDENCE_THRESHOLD
              THEN [completion EXCEPT
                       !.status = "verified", !.response = 200,
                       !.ai_verification_score = ai,
                       !.transactions = @ + 1, !.reputation_score = @ + 1]
              ELSE [completion EXCEPT
                       !.status = "completed", !.response = 200,
                       !.ai_verification_score = ai,
                       !.reviews = auto_flag_low_confidence_quest(ai, @)]
         /\ UNCHANGED << settings, threshold >>

CompletionRow(status, fraud_risk_score) ==
    [status |-> status, fraud_risk_score |-> fraud_risk_score, response |-> NoValue,
     ai_verification_score |-> NoValue, reputation_score |-> 0, transactions |-> 0,
     reviews |-> 0]

VerifyIdle ==
    /\ settings = [AI_VERIFICATION_CONFIDENCE_THRESHOLD |-> 70]
    /\ threshold = NotCalled
    /\ completion = CompletionRow("assigned", 0)

VerifyInit ==
    /\ \E b \in SampleBases : settings = [AI_VERIFICATION_CONFIDENCE_THRESHOLD |-> b]
    /\ threshold = NotCalled
    /\ \E st \in {"assigned", "in_progress"}, r \in SampleRisks :
          completion = CompletionRow(st, r)

(***************************************************************************)
(* Creation of quests                                                      *)
(*                                                                         *)
(* An 8-character geohash bisects latitude and longitude 20 times each.    *)
(* A point is given by the numbers of the latitude and the longitude       *)
(* slice of that grid it lies in, so the bisection of pygeohash.encode     *)
(* reads off the binary digits of the two numbers, longitude first.        *)
(***************************************************************************)

\* Quests the creation specification lets be created.
MaxReports == 2

\* The n binary digits of x, most significant first.
RECURSIVE BitsOf(_, _)
BitsOf(x, n) == IF n = 0 THEN << >> ELSE Append(BitsOf(x \div 2, n - 1), x % 2)

\* pygeohash.encode(latitude, longitude, precision) of a point of the grid
pygeohash_encode(point, precision) ==
    LET lngBits == BitsOf(point.lng, 20)
        latBits == BitsOf(point.lat, 20)
        bits == [i \in 1..40 |-> IF i % 2 = 1 THEN lngBits[(i + 1) \div 2]
                                              ELSE latBits[i \div 2]]
    IN  GeoChars(SubSeq(bits, 1, 5 * precision))

\* Points reported: one slice, the next one in the same 6-character cell,
\* one in another cell of the same ward and one in another ward.
SamplePoints ==
    {[lat |-> 640000 + d, lng |-> 786432] : d \in {0, 1, 32, 256}}

\* Quest(geohash=gh, ward_geohash=ward_gh), created_at = utcnow
ReportRow(point) ==
    [geohash |-> pygeohash_encode(point, 8),
     ward_geohash |-> Prefix(pygeohash_encode(point, 8), 5),
     created_at |-> createClock]

\* utcnow().replace(hour=0, minute=0, second=0)
Today == (createClock \div (24 * 60)) * (24 * 60)

\* .limit(50)
NearbyLimit == 50

\* The nearby query: today's quests of the ward, newest first, at most
\* NearbyLimit rows.
NearbyQuests(ward_gh) ==
    LET hits == SelectSeq(reports, LAMBDA r : r.ward_geohash = ward_gh /\ r.created_at >= Today)
    IN  [i \in 1..Min2(Len(hits), NearbyLimit) |-> hits[Len(hits) + 1 - i]]

\* The call of is_potential_duplicate in create_quest: the new point is
\* encoded at the length of the existing geohash and compared on 6
\* characters, the times with a tolerance of 30 minutes.
QuestDuplicate(point, existing) ==
    LET location_match ==
            check_geohash_proximity(pygeohash_encode(point, Len(existing.geohash)),
                                    existing.geohash, 6)
        time_match ==
            check_temporal_proximity(Naive(createClock * 60),
                                     Naive(existing.created_at * 60), 30)
    IN  IF location_match /\ time_match
        THEN [called |-> TRUE, is_duplicate |-> TRUE, reason |-> ReasonBoth]
        ELSE IF location_match
        THEN [called |-> TRUE, is_duplicate |-> TRUE, reason |-> ReasonLocation]
        ELSE [called |-> TRUE, is_duplicate |-> FALSE, reason |-> None]

CreatedOutcome(via, outcome, reason) ==
    [via |-> via, outcome |-> outcome, reason |-> reason]

\* POST /quests: 409 on the first duplicate among the nearby quests
create_quest(point) ==
    LET ward_gh == Prefix(pygeohash_encode(point, 8), 5)
        nearby_quests == NearbyQuests(ward_gh)
        dups == {i \in 1..Len(nearby_quests) :
                    QuestDuplicate(point, nearby_quests[i]).is_duplicate}
        first == CHOOSE i \in dups : \A j \in dups : i <= j
    IN  /\ Len(reports) < MaxReports
        /\ IF dups # {}
           THEN /\ created' = CreatedOutcome("rest", "409",
                                   QuestDuplicate(point, nearby_quests[first]).reason)
                /\ UNCHANGED reports
           ELSE /\ reports' = Append(reports, ReportRow(point))
                /\ created' = CreatedOutcome("rest", "201", None)
        /\ UNCHANGED createClock

\* The agent graph in stage awaiting_confirmation with a described draft:
\* a confirming message creates the quest, a declining one drops the draft.
agent_confirmation(point, confirms) ==
    /\ Len(reports) < MaxReports
    /\ IF confirms
       THEN /\ reports' = Append(reports, ReportRow(point))
            /\ created' = CreatedOutcome("graph", "created", None)
       ELSE /\ created' = CreatedOutcome("graph", "cancelled", None)
            /\ UNCHANGED reports
    /\ UNCHANGED createClock

\* The tool create_quest_in_database: a complete, confirmed draft is inserted.
create_quest_in_database(point, complete, user_confirmed) ==
    /\ Len(reports) < MaxReports
    /\ IF ~complete
       THEN /\ created' = CreatedOutcome("tool", "awaiting_image", None)
            /\ UNCHANGED reports
       ELSE IF ~user_confirmed
       THEN /\ created' = CreatedOutcome("tool", "awaiting_confirmation", None)
            /\ UNCHANGED reports
       ELSE /\ reports' = Append(reports, ReportRow(point))
            /\ created' = CreatedOutcome("tool", "completed", None)
    /\ UNCHANGED createClock

\* Time passes, to a later one of these minutes: noon, ten minutes before
\* midnight, ten and fifty minutes into the next day.
SampleInstants == {0, 12 * 60, 23 * 60 + 50, 24 * 60 + 10, 24 * 60 + 50}
CreateTick ==
    /\ \E t \in SampleInstants : t > createClock /\ createClock' = t
    /\ UNCHANGED << reports, created >>

CreateIdle ==
    /\ reports = << >>
    /\ createClock = 0
    /\ created = NotCalled

CreateInit == CreateIdle

(***************************************************************************)
(* Comparison of the metadata of two photos                                *)
(* (app/utils/exif_extraction.py compare_metadata)                         *)
(***************************************************************************)

\* Python's True, False and None in a field that holds any of the three.
PyTrue  == "True"
PyFalse == "False"
PyBool(b) == IF b THEN PyTrue ELSE PyFalse

\* A "timestamp" entry of a metadata dict: None, the empty string, a string
\* that datetime.fromisoformat rejects, or the ISO string of a datetime
\* (seconds; naive or with a UTC offset).
NoTimestamp      == [text |-> "None",    time |-> Naive(0)]
EmptyTimestamp   == [text |-> "",        time |-> Naive(0)]
InvalidTimestamp == [text |-> "garbage", time |-> Naive(0)]
IsoTimestamp(t)  == [text |-> "iso",     time |-> t]

\* bool(timestamp string): None and the empty string are falsy.
Truthy(timestamp) == timestamp.text \notin {"None", ""}

\* datetime.fromisoformat raises ValueError on a string that is no ISO date,
\* and subtracting or comparing a naive and an aware datetime raises TypeError;
\* the try block of compare_metadata catches both.
TimestampsRaise(before_time_str, after_time_str) ==
    \/ before_time_str.text # "iso"
    \/ after_time_str.text # "iso"
    \/ before_time_str.time.aware # after_time_str.time.aware

\* after_time - before_time in seconds: aware datetimes are subtracted as
\* instants, naive ones as wall-clock readings.
TimeDelta(before_time, after_time) ==
    IF before_time.aware
    THEN (after_time.wall - after_time.off) - (before_time.wall - before_time.off)
    ELSE after_time.wall - before_time.wall

\* is_after_later = after_time > before_time, with ">=" in its place.
is_after_later_OrSame(before_time, after_time) ==
    TimeDelta(before_time, after_time) >= 0

\* is_after_later = after_time > before_time
is_after_later(before_time, after_time) ==
    TimeDelta(before_time, after_time) > 0

\* within_tolerance = abs(delta.total_seconds()) / 60 <= time_tolerance_minutes
within_tolerance(before_time, after_time, time_tolerance_minutes) ==
    Abs(TimeDelta(before_time, after_time)) <= 60 * time_tolerance_minutes

\* The haversine distance in metres of two points of one meridian, whose
\* latitudes are in units of 1e-4 degree: 6371000 * radians(dlat), which is
\* 11.1195 m for each unit.
MetersPerUnit10000 == 111195
distance_meters(before_gps, after_gps) ==
    (Abs(after_gps.latitude - before_gps.latitude) * MetersPerUnit10000) \div 10000

FlagLocationMismatch == "Location mismatch"
FlagMissingGps       == "Missing GPS data in one or both images"
FlagAfterBefore      == "After photo appears to be taken before the before photo"
FlagTimeTooLarge     == "Time difference too large"
FlagInvalidTimestamp == "Invalid timestamp format"
FlagMissingTimestamp == "Missing timestamp in one or both images"
FlagDifferentDevice  == "Different device used for before and after photos"

\* The flags a step appends: the flag if the condition holds, nothing otherwise.
FlagIf(cond, flag) == IF cond THEN << flag >> ELSE << >>

\* The GPS part of compare_metadata: location_match and its flags.
GpsPart(before_gps, after_gps, gps_tolerance_meters) ==
    IF before_gps.present /\ after_gps.present
    THEN LET match == distance_meters(before_gps, after_gps) <= gps_tolerance_meters
         IN  [location_match |-> PyBool(match),
              flags |-> FlagIf(~match, FlagLocationMismatch)]
    ELSE [location_match |-> None, flags |-> << FlagMissingGps >>]

\* The timestamp part of compare_metadata: time_valid and its flags.
TimePart(before_time_str, after_time_str, time_tolerance_minutes) ==
    IF Truthy(before_time_str) /\ Truthy(after_time_str)
    THEN IF TimestampsRaise(before_time_str, after_time_str)
         THEN [time_valid |-> None, flags |-> << FlagInvalidTimestamp >>]
         ELSE LET later  == is_after_later(before_time_str.time, after_time_str.time)
                  within == within_tolerance(before_time_str.time, after_time_str.time,
                                             time_tolerance_minutes)
              IN  [time_valid |-> PyBool(later /\ within),
                   flags |-> FlagIf(~later, FlagAfterBefore)
                             \o FlagIf(~within, FlagTimeTooLarge)]
    ELSE [time_valid |-> None, flags |-> << FlagMissingTimestamp >>]

\* The device part of compare_metadata: same_device and its flag.
DevicePart(before_device, after_device) ==
    IF before_device.present /\ after_device.present
    THEN LET same == /\ before_device.make = after_device.make
                     /\ before_device.model = after_device.model
         IN  [same_device |-> PyBool(same), flags |-> FlagIf(~same, FlagDifferentDevice)]
    ELSE [same_device |-> None, flags |-> << >>]

compare_metadata(before_metadata, after_metadata, gps_tolerance_meters, time_tolerance_minutes) ==
    LET gps  == GpsPart(before_metadata.gps_coordinates, after_metadata.gps_coordinates,
                        gps_tolerance_meters)
        time == TimePart(before_metadata.timestamp, after_metadata.timestamp,
                         time_tolerance_minutes)
        dev  == DevicePart(before_metadata.device_info, after_metadata.device_info)
    IN  [called |-> TRUE,
         location_match |-> gps.location_match,
         time_valid |-> time.time_valid,
         same_device |-> dev.same_device,
         verification_flags |-> gps.flags \o time.flags \o dev.flags]

\* Sample metadata: photos with and without GPS, one device or another,
\* timestamps on both sides of the tolerance and of the before photo.
NoGps == [present |-> FALSE, latitude |-> 0, longitude |-> 0]
Gps(lat, lng) == [present |-> TRUE, latitude |-> lat, longitude |-> lng]
NoDevice == [present |-> FALSE, make |-> None, model |-> None]
Device(make, model) == [present |-> TRUE, make |-> make, model |-> model]

SampleGps == {NoGps, Gps(237461, 903742), Gps(237462, 903742), Gps(240000, 903742)}
SampleDevices == {NoDevice, Device("Samsung", "Galaxy S21"), Device("Samsung", "Galaxy S22")}
BeforeTimestamps ==
    {NoTimestamp, EmptyTimestamp, InvalidTimestamp,
     IsoTimestamp(Naive(3600)), IsoTimestamp(Aware(3600, 0))}
AfterTimestamps ==
    {NoTimestamp, InvalidTimestamp}
    \cup {IsoTimestamp(Naive(w)) : w \in {1800, 3600, 3601, 5400, 5401}}
    \cup {IsoTimestamp(Aware(w, 21600)) : w \in {25200, 25201, 27000, 27001}}
SampleGpsTolerances == {100}

ExifIdle ==
    /\ exifArgs = [before_metadata |-> [gps_coordinates |-> NoGps, timestamp |-> NoTimestamp,
                                        device_info |-> NoDevice],
                   after_metadata |-> [gps_coordinates |-> NoGps, timestamp |-> NoTimestamp,
                                       device_info |-> NoDevice],
                   gps_tolerance_meters |-> 100, time_tolerance_minutes |-> 30]
    /\ exifResult = NotCalled

ExifInit ==
    /\ \E bg \in SampleGps, ag \in SampleGps, bt \in BeforeTimestamps, at \in AfterTimestamps,
          bd \in SampleDevices, ad \in SampleDevices,
          gtol \in SampleGpsTolerances, ttol \in SampleTolerances :
          exifArgs = [before_metadata |-> [gps_coordinates |-> bg, timestamp |-> bt,
                                           device_info |-> bd],
                      after_metadata |-> [gps_coordinates |-> ag, timestamp |-> at,
                                          device_info |-> ad],
                      gps_tolerance_meters |-> gtol, time_tolerance_minutes |-> ttol]
    /\ exifResult = NotCalled

CallCompareMetadata ==
    /\ exifResult = NotCalled
    /\ exifResult' = compare_metadata(exifArgs.before_metadata, exifArgs.after_metadata,
                                      exifArgs.gps_tolerance_meters,
                                      exifArgs.time_tolerance_minutes)
    /\ UNCHANGED exifArgs


(***************************************************************************)
(* The life of a quest over the REST operations                            *)
(* (app/routers/quests.py, app/routers/admin_review.py)                    *)
(***************************************************************************)

\* QUEST_COMPLETION transactions the specification lets be created.
MaxBounties == 2

\* The collectors who send requests.  The admin sends none but the
\* decisions on reviews.
OpCollectors == {"c1", "c2"}
\* The quest they work on.
OpQuests == {"q1"}

\* A field of a QuestUpdate body that was not sent (exclude_unset).
Unset == "unset"

\* The row of a quest that does not exist yet, and of one just created.
NoQuest  == [exists |-> FALSE, status |-> "reported", collector_id |-> None]
NewQuest == [exists |-> TRUE,  status |-> "reported", collector_id |-> None]

\* The request just answered.  "verifies" tells a completion whose AI
\* confidence reached the threshold, or a review that was approved.
Request(op, user, q, response, verifies) ==
    [called |-> TRUE, op |-> op, user |-> user, quest |-> q, response |-> response,
     verifies |-> verifies]

\* POST /quests, answered 201 (the duplicate check is the subject of the
\* creation specification).
post_quest(q) ==
    /\ ~questTable[q].exists
    /\ questTable' = [questTable EXCEPT ![q] = NewQuest]
    /\ lastRequest' = Request("create_quest", "citizen", q, "201", FALSE)
    /\ UNCHANGED << reviewTable, bounties, reputations >>

\* PATCH /quests/{id}/assign by a collector
assign_quest(user, q) ==
    /\ questTable[q].exists
    /\ IF questTable[q].status # "reported"
       THEN /\ lastRequest' = Request("assign_quest", user, q, "400", FALSE)
            /\ UNCHANGED questTable
       ELSE /\ questTable' = [questTable EXCEPT ![q].collector_id = user,
                                                ![q].status = "assigned"]
            /\ lastRequest' = Request("assign_quest", user, q, "200", FALSE)
    /\ UNCHANGED << reviewTable, bounties, reputations >>

\* auto_flag_low_confidence_quest for the quest: the status of its review
FlaggedReview(q, confidence_score) ==
    IF confidence_score >= settings.AI_VERIFICATION_CONFIDENCE_THRESHOLD THEN reviewTable[q]
    ELSE IF reviewTable[q] = "pending" THEN reviewTable[q]
    ELSE "pending"

\* quest.status in [ASSIGNED, IN_PROGRESS]
Completable(status) == status \in {"assigned", "in_progress"}

\* POST /quests/{id}/complete by a collector, with or without both photos;
\* the AI verification returns confidence ai, or raises (ai = NoValue).
complete_quest_request(user, q, has_photos, ai) ==
    /\ questTable[q].exists
    /\ IF questTable[q].collector_id # user
       THEN /\ lastRequest' = Request("complete_quest", user, q, "403", FALSE)
            /\ UNCHANGED << questTable, reviewTable, bounties, reputations >>
       ELSE IF ~Completable(questTable[q].status) \/ ~has_photos
       THEN /\ lastRequest' = Request("complete_quest", user, q, "400", FALSE)
            /\ UNCHANGED << questTable, reviewTable, bounties, reputations >>
       ELSE IF ai # NoValue /\ ai >= settings.AI_VERIFICATION_CONFIDENCE_THRESHOLD
       THEN /\ Len(bounties) < MaxBounties
            /\ questTable' = [questTable EXCEPT ![q].status = "verified"]
            /\ bounties' = Append(bounties, [quest_id |-> q, user_id |-> user])
            /\ reputations' = [reputations EXCEPT ![user] = @ + 1]
            /\ lastRequest' = Request("complete_quest", user, q, "200", TRUE)
            /\ UNCHANGED reviewTable
       ELSE /\ questTable' = [questTable EXCEPT ![q].status = "completed"]
            /\ reviewTable' = [reviewTable EXCEPT
                                  ![q] = FlaggedReview(q, IF ai = NoValue THEN 0 ELSE ai)]
            /\ lastRequest' = Request("complete_quest", user, q, "200", FALSE)
            /\ UNCHANGED << bounties, reputations >>

\* PATCH /quests/{id} by a user who is no admin: every field sent is set.
update_quest(user, q, status, collector_id) ==
    /\ questTable[q].exists
    /\ IF questTable[q].collector_id # user
       THEN /\ lastRequest' = Request("update_quest", user, q, "403", FALSE)
            /\ UNCHANGED questTable
       ELSE /\ questTable' =
                  [questTable EXCEPT
                      ![q].status = IF status = Unset THEN @ ELSE status,
                      ![q].collector_id = IF collector_id = Unset THEN @ ELSE collector_id]
            /\ lastRequest' = Request("update_quest", user, q, "200", FALSE)
    /\ UNCHANGED << reviewTable, bounties, reputations >>

\* POST /admin/reviews/flag-quest/{id} by any user
flag_quest_for_review(user, q) ==
    /\ questTable[q].exists
    /\ IF reviewTable[q] = "pending"
       THEN /\ lastRequest' = Request("flag_quest_for_review", user, q, "400", FALSE)
            /\ UNCHANGED reviewTable
       ELSE /\ reviewTable' = [reviewTable EXCEPT ![q] = "pending"]
            /\ lastRequest' = Request("flag_quest_for_review", user, q, "200", FALSE)
    /\ UNCHANGED << questTable, bounties, reputations >>

\* PATCH /admin/reviews/{id} by an admin, on the quest's pending review
update_review(q, decision) ==
    /\ reviewTable[q] = "pending"
    /\ reviewTable' = [reviewTable EXCEPT ![q] = decision]
    /\ questTable' =
           IF ~questTable[q].exists THEN questTable
           ELSE IF decision = "approved" THEN [questTable EXCEPT ![q].status = "verified"]
           ELSE IF decision = "rejected" THEN [questTable EXCEPT ![q].status = "rejected"]
           ELSE questTable
    /\ lastRequest' = Request("update_review", "admin", q, "200", decision = "approved")
    /\ UNCHANGED << bounties, reputations >>

\* No quest, no review, no transaction; reputations at their default.
OpsIdle ==
    /\ questTable = [q \in OpQuests |-> NoQuest]
    /\ reviewTable = [q \in OpQuests |-> "none"]
    /\ bounties = << >>
    /\ reputations = [c \in OpCollectors |-> 0]
    /\ lastRequest = NotCalled

OpsInit == OpsIdle

InitDup ==
    /\ DupInit /\ ScoreIdle /\ AssignIdle /\ FraudIdle /\ VerifyIdle /\ CreateIdle /\ ExifIdle
    /\ OpsIdle
NextDup ==
    /\ CallIsPotentialDuplicate
    /\ UNCHANGED << scoreVars, assignVars, fraudVars, verifyVars, createVars, exifVars, opsVars >>
SpecDup == InitDup /\ [][NextDup]_vars

InitScore ==
    /\ ScoreInit /\ DupIdle /\ AssignIdle /\ FraudIdle /\ VerifyIdle /\ CreateIdle /\ ExifIdle
    /\ OpsIdle
NextScore ==
    /\ CallSelectBestCollector
    /\ UNCHANGED << dupVars, assignVars, fraudVars, verifyVars, createVars, exifVars, opsVars >>
SpecScore == InitScore /\ [][NextScore]_vars

InitAssign ==
    /\ AssignInit /\ DupIdle /\ ScoreIdle /\ FraudIdle /\ VerifyIdle /\ CreateIdle /\ ExifIdle
    /\ OpsIdle
NextAssign ==
    /\ \/ \E p \in Procs, q \in QuestIds : StartCall(p, q)
       \/ \E p \in Procs : FindNearbyCollectors(p)
       \/ \E p \in Procs : AssignBest(p)
       \/ \E p \in Procs : ExpandRadius(p)
       \/ \E p \in Procs : LogAssignmentFailure(p)
       \/ \E c \in Collectors, s \in AvailabilityRequests : update_collector_availability(c, s)
       \/ Tick
    /\ UNCHANGED << dupVars, scoreVars, fraudVars, verifyVars, createVars, exifVars, opsVars >>
SpecAssign == InitAssign /\ [][NextAssign]_vars

\* The calls of assign_collector_to_quest one after the other, among
\* completions of quests and collectors coming back, at one time of day.
NextAssignSerial ==
    /\ \/ \E p \in Procs, q \in QuestIds : StartCallAlone(p, q)
       \/ \E p \in Procs : FindNearbyCollectors(p)
       \/ \E p \in Procs : AssignBest(p)
       \/ \E p \in Procs : ExpandRadius(p)
       \/ \E p \in Procs : LogAssignmentFailure(p)
       \/ \E q \in QuestIds, verified \in BOOLEAN : CompleteAssignedQuest(q, verified)
       \/ \E c \in Collectors, s \in AvailabilityRequests : update_collector_availability(c, s)
    /\ UNCHANGED << dupVars, scoreVars, fraudVars, verifyVars, createVars, exifVars, opsVars >>
SpecAssignSerial == InitAssign /\ [][NextAssignSerial]_vars

InitFraud ==
    /\ FraudInit /\ DupIdle /\ ScoreIdle /\ AssignIdle /\ VerifyIdle /\ CreateIdle /\ ExifIdle
    /\ OpsIdle
NextFraud ==
    /\ AnalyzeNeutral \/ AnalyzeFull
    /\ UNCHANGED << dupVars, scoreVars, assignVars, verifyVars, createVars, exifVars, opsVars >>
SpecFraud == InitFraud /\ [][NextFraud]_vars

InitVerify ==
    /\ VerifyInit /\ DupIdle /\ ScoreIdle /\ AssignIdle /\ FraudIdle /\ CreateIdle /\ ExifIdle
    /\ OpsIdle
NextVerify ==
    /\ \/ CallGetDynamicAiThreshold
       \/ \E is_owner \in BOOLEAN, has_photos \in BOOLEAN,
             ai \in SampleConfidences \cup {NoValue} :
             complete_quest(is_owner, has_photos, ai)
    /\ UNCHANGED << dupVars, scoreVars, assignVars, fraudVars, createVars, exifVars, opsVars >>
SpecVerify == InitVerify /\ [][NextVerify]_vars

InitCreate ==
    /\ CreateInit /\ DupIdle /\ ScoreIdle /\ AssignIdle /\ FraudIdle /\ VerifyIdle /\ ExifIdle
    /\ OpsIdle
NextCreate ==
    /\ \/ \E point \in SamplePoints : create_quest(point)
       \/ \E point \in SamplePoints, confirms \in BOOLEAN : agent_confirmation(point, confirms)
       \/ \E point \in SamplePoints, complete \in BOOLEAN, user_confirmed \in BOOLEAN :
             create_quest_in_database(point, complete, user_confirmed)
       \/ CreateTick
    /\ UNCHANGED << dupVars, scoreVars, assignVars, fraudVars, verifyVars, exifVars, opsVars >>
SpecCreate == InitCreate /\ [][NextCreate]_vars

InitExif ==
    /\ ExifInit /\ DupIdle /\ ScoreIdle /\ AssignIdle /\ FraudIdle /\ VerifyIdle
    /\ CreateIdle /\ OpsIdle
NextExif ==
    /\ CallCompareMetadata
    /\ UNCHANGED << dupVars, scoreVars, assignVars, fraudVars, verifyVars, createVars,
                    opsVars >>
SpecExif == InitExif /\ [][NextExif]_vars

InitOps ==
    /\ OpsInit /\ DupIdle /\ ScoreIdle /\ AssignIdle /\ FraudIdle /\ VerifyIdle
    /\ CreateIdle /\ ExifIdle
NextOps ==
    /\ \/ \E q \in OpQuests : post_quest(q)
       \/ \E user \in OpCollectors, q \in OpQuests : assign_quest(user, q)
       \/ \E user \in OpCollectors, q \in OpQuests, has_photos \in BOOLEAN,
             ai \in {NoValue, 60, 90} : complete_quest_request(user, q, has_photos, ai)
       \/ \E user \in OpCollectors, q \in OpQuests, st \in QuestStatus \cup {Unset},
             collector_id \in OpCollectors \cup {Unset} :
             update_quest(user, q, st, collector_id)
       \/ \E user \in OpCollectors, q \in OpQuests : flag_quest_for_review(user, q)
       \/ \E q \in OpQuests, decision \in {"pending", "approved", "rejected"} :
             update_review(q, decision)
    /\ UNCHANGED << dupVars, scoreVars, assignVars, fraudVars, verifyVars, createVars,
                    exifVars >>
SpecOps == InitOps /\ [][NextOps]_vars


(***************************************************************************)
(* Properties                                                              *)
(***************************************************************************)

\* The location match and the time match of the call whose arguments are dupArgs.
DupLocationMatch ==
    Prefix(encode_geohash(dupArgs.new_lat, dupArgs.new_lng, Len(dupArgs.existing_geohash)),
           dupArgs.location_precision)
        = Prefix(dupArgs.existing_geohash, dupArgs.location_precision)
DupTimeMatch ==
    Abs(dupArgs.new_timestamp.wall - dupArgs.existing_timestamp.wall)
        <= dupArgs.time_tolerance_minutes * 60

\* C1: is_potential_duplicate returns (True, reason) exactly when the new
\* point, encoded at the length of existing_geohash, shares its first
\* location_precision characters with it, whatever the time difference; when
\* the location does not match it returns (False, None).
C1_LocationDecides ==
    dupResult.called =>
        /\ dupResult.is_duplicate <=> DupLocationMatch
        /\ dupResult.is_duplicate => dupResult.reason # None
        /\ ~DupLocationMatch => dupResult.reason = None
\* A duplicate reported on the location alone, the times apart.
C1_Witness ==
    /\ dupResult.called
    /\ dupResult.is_duplicate
    /\ DupLocationMatch
    /\ ~DupTimeMatch

\* C2 as stated: the reason is exactly "Same location and time window" when
\* both match, exactly "Same location, different time" when only the
\* location matches, and None when the location does not match.
C2_ExactShortReasons ==
    dupResult.called =>
        dupResult.reason = IF DupLocationMatch /\ DupTimeMatch
                           THEN "Same location and time window"
                           ELSE IF DupLocationMatch THEN "Same location, different time"
                           ELSE None
\* C2 amended: the reason is exactly "Duplicate detected: Same location and
\* time window" when both match, exactly "Potential duplicate: Same
\* location, different time" when only the location matches, and None when
\* the location does not match.
C2_PrefixedReasons ==
    dupResult.called =>
        dupResult.reason = IF DupLocationMatch /\ DupTimeMatch
                           THEN "Duplicate detected: Same location and time window"
                           ELSE IF DupLocationMatch
                           THEN "Potential duplicate: Same location, different time"
                           ELSE None
\* A duplicate in location and time.
C2_Witness ==
    /\ dupResult.called
    /\ DupLocationMatch
    /\ DupTimeMatch
    /\ dupResult.reason # None

\* 1 degree = 111 km (routers/disposal.py): the metres a distance in
\* millidegrees stands for.
KmPerDegree == 111
TrueDistanceMeters(millideg) == millideg * KmPerDegree

\* The rows of the coroutine's last query that lie within km kilometres.
RowsWithinKm(p, km) ==
    {i \in 1..Len(call[p].collectors) :
        TrueDistanceMeters(call[p].collectors[i].distance_km) <= km * 1000}
Returned(p) == call[p].pc = "done"
Succeeded(p) == Returned(p) /\ call[p].result.user # None
EntriesOfCall(n) == {i \in 1..Len(history) : history[i].call = n}
CallRunning(n) == \E p \in Procs : call[p].id = n /\ call[p].pc \in {"query", "rows"}

\* C3 as stated: the radii are probed in increasing order and the search
\* stops at the first radius with a candidate, so the assigned collector
\* lies within the radius of the pass that assigned it: a collector 12 km
\* away is not assigned at the 10 km pass.
C3_AssignedWithinRadius ==
    \A p \in Procs :
        Succeeded(p) =>
            /\ call[p].current_radius \in
                   {MAX_SEARCH_RADIUS_KM + k * EXPAND_RADIUS_STEP_KM : k \in 0..8}
            /\ \A i \in 1..Len(call[p].collectors) :
                   call[p].collectors[i].user = call[p].result.user =>
                       i \in RowsWithinKm(p, call[p].current_radius)

\* C4: every call of assign_collector_to_quest has added exactly one
\* history entry for its quest by the time it returns, on success and on
\* failure, and none before.
C4_OneAttemptPerCall ==
    \A n \in 1..callCount :
        /\ Cardinality(EntriesOfCall(n)) = IF CallRunning(n) THEN 0 ELSE 1
        /\ \A i \in EntriesOfCall(n) :
               \E p \in Procs : call[p].id = n /\ history[i].quest_id = call[p].quest
\* Two calls have returned, one with a collector and one without.
C4_Witness ==
    /\ \A p \in Procs : Returned(p)
    /\ \E p \in Procs : Succeeded(p)
    /\ \E p \in Procs : ~Succeeded(p)
    /\ Len(history) = 2

\* C5 as stated: a quest whose status is not reported never has its status
\* or collector_id changed by a call.
C5_OnlyReportedQuestsChange ==
    [][\A q \in QuestIds :
          quests[q].status # "reported" =>
              /\ quests'[q].status = quests[q].status
              /\ quests'[q].collector_id = quests[q].collector_id]_vars

\* C6: when a call selects a collector, the quest then has that collector,
\* status assigned and assigned_at set, and the entry appended is
\* successful, names the quest's collector and carries the distance and
\* the active-quest count of the selected row of the candidate query.
C6_AssignmentRecorded ==
    [][\A p \in Procs :
          (call[p].pc = "rows" /\ call'[p].pc = "done" /\ call'[p].result.user # None) =>
              LET q == call[p].quest
                  entry == history'[Len(history')]
              IN  /\ Len(history') = Len(history) + 1
                  /\ quests'[q].collector_id = call'[p].result.user
                  /\ quests'[q].status = "assigned"
                  /\ quests'[q].assigned_at = now /\ quests'[q].assigned_at # NoValue
                  /\ entry.was_successful
                  /\ entry.quest_id = q
                  /\ entry.assigned_collector_id = quests'[q].collector_id
                  /\ \E i \in 1..Len(call[p].collectors) :
                        /\ call[p].collectors[i].user = call'[p].result.user
                        /\ entry.distance_km = call[p].collectors[i].distance_km
                        /\ entry.collector_workload_at_assignment
                               = call[p].collectors[i].active_quests]_vars
\* A call has chosen between two candidates, one of them with an active
\* quest, and its entry is in the history.
C6_Witness ==
    \E p \in Procs :
        /\ Succeeded(p)
        /\ Len(call[p].collectors) = 2
        /\ \E i \in 1..2 : call[p].collectors[i].active_quests > 0
        /\ \E i \in EntriesOfCall(call[p].id) :
              /\ history[i].was_successful
              /\ history[i].assigned_collector_id = call[p].result.user

\* C7 as stated: when no eligible collector is within 50 km the call returns
\* no collector with the message "No collectors available in your area" and
\* has appended a failed entry without a collector.
C7_FailsWithoutCollectorIn50Km ==
    \A p \in Procs :
        (Returned(p) /\ RowsWithinKm(p, MAX_RADIUS_KM) = {}) =>
            /\ call[p].result.user = None
            /\ call[p].result.message = "No collectors available in your area"
            /\ \E i \in EntriesOfCall(call[p].id) :
                  /\ ~history[i].was_successful
                  /\ history[i].assigned_collector_id = None

\* C8: nothing between the candidate query and the assignment checks the
\* collector's load again: a coroutine that resumes with a non-empty result
\* assigns the best row's collector, whatever that collector's load has
\* become, so two calls that queried before either assigned can fill one
\* collector beyond max_concurrent_quests.
C8_NoRecheckBeforeAssign ==
    [][\A p \in Procs :
          (call[p].pc = "rows" /\ call[p].collectors # << >> /\ call'[p] # call[p]) =>
              /\ call'[p].pc = "done"
              /\ call'[p].result.user = select_best_collector(call[p].collectors).user
              /\ quests'[call[p].quest].collector_id = call'[p].result.user
              /\ quests'[call[p].quest].status = "assigned"]_vars
\* Two calls for different quests have both assigned the same collector,
\* who now holds more active quests than max_concurrent_quests.
C8_Witness ==
    \E c \in Collectors :
        /\ ActiveCount(c) > users[c].max_concurrent_quests
        /\ \A p \in Procs : Succeeded(p) /\ call[p].result.user = c
        /\ call["a"].quest # call["b"].quest

\* C9: every candidate of every pool passed to _select_best_collector has a
\* composite score in [0, 1].
C9_ScoreInUnitInterval ==
    best.called =>
        \A i \in 1..Len(pool) :
            LET score == ScoredCollectors(pool)[i].score
            IN  0 <= score.num /\ score.num <= score.den /\ score.den > 0
\* A pool of two where one candidate scores 0 and the other 1.
C9_Witness ==
    /\ best.called
    /\ Len(pool) = 2
    /\ \E i, j \in 1..Len(pool) :
          /\ ScoredCollectors(pool)[i].score.num = 0
          /\ ScoredCollectors(pool)[j].score.num = ScoredCollectors(pool)[j].score.den

\* C10: with fewer than 3 qualifying quests in the window the returned
\* pattern has risk score 0.0 and the flags {"insufficient_data": true},
\* whatever the quests are, and no sub-analysis has run.
C10_InsufficientData ==
    (fraudRun.pattern.called /\ Len(RecentQuests(fraudQuests)) < 3) =>
        /\ fraudRun.pattern.calculated_risk_score.num = 0
        /\ fraudRun.pattern.fraud_flags = {"insufficient_data"}
        /\ fraudRun.pattern.analyses = {}
\* Exactly two qualifying quests, both completed in under five minutes and
\* both rejected.
C10_Witness ==
    /\ fraudRun.pattern.called
    /\ Len(RecentQuests(fraudQuests)) = 2
    /\ \A i \in 1..2 : /\ IsRapid(RecentQuests(fraudQuests)[i])
                       /\ IsRejected(RecentQuests(fraudQuests)[i])

\* The quests of the last analysis, and whether they trigger all four
\* indicators to the full: every quest rapid, at least 50 quests per km2,
\* at least 10 completions in one hour, every quest rejected.
AnalysedQuests == RecentQuests(fraudQuests)
AllMaximal(qs) ==
    /\ \A i \in 1..Len(qs) : IsRapid(qs[i]) /\ IsRejected(qs[i])
    /\ analyze_location_patterns(qs).max_density.num
           >= 50 * analyze_location_patterns(qs).max_density.den
    /\ analyze_frequency_patterns(qs).max_per_hour >= 10

\* C11: with at least 3 qualifying quests the calculated_risk_score of the
\* returned pattern lies in [0, 1], and it is 1 when all four indicators
\* are triggered to the full.
C11_RiskInUnitInterval ==
    (fraudRun.pattern.called /\ Len(AnalysedQuests) >= MIN_QUESTS_FOR_ANALYSIS) =>
        LET risk == fraudRun.pattern.calculated_risk_score
        IN  /\ risk.den > 0 /\ 0 <= risk.num /\ risk.num <= risk.den
            /\ AllMaximal(AnalysedQuests) => risk.num = risk.den

\* An analysis of quests that trigger all four indicators to the full.
C11_Witness ==
    /\ fraudRun.pattern.called
    /\ Len(AnalysedQuests) >= MIN_QUESTS_FOR_ANALYSIS
    /\ AllMaximal(AnalysedQuests)
    /\ fraudRun.pattern.calculated_risk_score = [num |-> 1, den |-> 1]

\* C12: for the base threshold of the settings, the threshold returned for a
\* risk score is at most the threshold of every higher risk score.
C12_NonDecreasingInRisk ==
    threshold.called =>
        \A r2 \in SampleRisks :
            threshold.fraud_risk_score <= r2 =>
                threshold.value <= get_dynamic_ai_threshold(r2)

\* C13: whatever the risk score and the base threshold, the returned
\* threshold lies in [0.50, 0.95].
C13_ThresholdInRange ==
    threshold.called => (50 <= threshold.value /\ threshold.value <= 95)

\* C14: the returned threshold follows the four-band table, the bands
\* half-open: below 0.2 max(base - 0.10, 0.50); from 0.2 below 0.5 the base;
\* from 0.5 below 0.7 min(base + 0.10, 0.90); from 0.7 min(base + 0.15, 0.95).
C14_FourBandTable ==
    threshold.called =>
        LET risk == threshold.fraud_risk_score
            base == settings.AI_VERIFICATION_CONFIDENCE_THRESHOLD
            floored == IF base - 10 < 50 THEN 50 ELSE base - 10
            high == IF base + 10 > 90 THEN 90 ELSE base + 10
            veryHigh == IF base + 15 > 95 THEN 95 ELSE base + 15
        IN  /\ risk \in 0..19 => threshold.value = floored
            /\ risk \in 20..49 => threshold.value = base
            /\ risk \in 50..69 => threshold.value = high
            /\ risk \in 70..100 => threshold.value = veryHigh

\* The threshold of a collector whose risk score is exactly 0.5, with the
\* base 0.70: the high band's 0.80.
C14_Witness ==
    /\ threshold.called
    /\ threshold.fraud_risk_score = 50
    /\ settings.AI_VERIFICATION_CONFIDENCE_THRESHOLD = 70
    /\ threshold.value = 80

\* C18: a quest completed by complete_quest is verified only when the AI
\* confidence is at least the dynamic threshold of the completing
\* collector's fraud_risk_score.
C18_VerifiedAboveDynamicThreshold ==
    (completion.response = 200 /\ completion.status = "verified") =>
        completion.ai_verification_score
            >= get_dynamic_ai_threshold(completion.fraud_risk_score)

\* C15: every run of analyze_collector_behavior appends the returned pattern
\* to the stored snapshots, leaving the earlier ones as they were, and sets
\* the collector's fraud_risk_score to the pattern's score and
\* last_fraud_check to now.
C15_EveryRunPersistsAndUpdates ==
    [][fraudRun'.runs = fraudRun.runs + 1 =>
          /\ patterns' = Append(patterns, fraudRun'.pattern)
          /\ fraudUser'.fraud_risk_score = fraudRun'.pattern.calculated_risk_score
          /\ fraudUser'.last_fraud_check = FraudNow]_vars

\* The collector's quests in status completed or rejected whose completion
\* falls in the window.
CompletedOrRejected ==
    SelectSeq(fraudQuests, LAMBDA q : /\ q.status \in {"completed", "rejected"}
                                      /\ q.completed_at # NoValue
                                      /\ q.completed_at >= WindowStart)

\* C16: a collector with at least 3 quests in status completed or rejected
\* completed in the window is analysed, not returned as insufficient data.
C16_CompletedQuestsQualify ==
    (fraudRun.pattern.called /\ Len(CompletedOrRejected) >= MIN_QUESTS_FOR_ANALYSIS) =>
        "insufficient_data" \notin fraudRun.pattern.fraud_flags

\* C17: no quest is inserted while a quest created the same day lies in the
\* same 6-character geohash cell (for such a pair is_potential_duplicate
\* reports a duplicate, so the check cannot have passed).
C17_NoUncheckedDuplicate ==
    [][Len(reports') = Len(reports) + 1 =>
          ~\E i \in 1..Len(reports) :
               /\ reports[i].created_at >= Today
               /\ Prefix(reports[i].geohash, 6)
                      = Prefix(reports'[Len(reports')].geohash, 6)]_vars

\* The new point lies outside latitude [-90, 90] or longitude [-180, 180].
NewPointOutOfRange ==
    \/ dupArgs.new_lat < 0 - 90 \/ dupArgs.new_lat > 90
    \/ dupArgs.new_lng < 0 - 180 \/ dupArgs.new_lng > 180
\* The outcome of a call that raised ValueError.
RaisedValueError == [called |-> TRUE, raised |-> "ValueError"]

\* C19: with the latitude or the longitude of the new point out of range,
\* encoding it raises ValueError and no result is returned.
C19_OutOfRangeRaises ==
    (dupResult.called /\ NewPointOutOfRange) => dupResult = RaisedValueError

\* The instant of a datetime: its wall clock less its UTC offset.
Instant(t) == t.wall - t.off

\* C20: check_temporal_proximity(t1, t2, tol) is true exactly when the two
\* timestamps are at most tol minutes apart, a difference of exactly tol
\* minutes included, and it is symmetric in t1 and t2 (for two timestamps
\* that can be subtracted: both naive or both aware).
C20_TemporalProximity ==
    LET t1 == dupArgs.new_timestamp
        t2 == dupArgs.existing_timestamp
        tol == dupArgs.time_tolerance_minutes
    IN  (dupResult.called /\ t1.aware = t2.aware) =>
            /\ check_temporal_proximity(t1, t2, tol)
                   = (Abs(Instant(t1) - Instant(t2)) <= tol * 60)
            /\ check_temporal_proximity(t1, t2, tol) = check_temporal_proximity(t2, t1, tol)

\* The timestamps of the compared photos, when both are present and can be
\* parsed and compared (a naive and an aware datetime cannot be compared).
ExifBefore == exifArgs.before_metadata.timestamp
ExifAfter  == exifArgs.after_metadata.timestamp
BothParseable ==
    /\ ExifBefore.text = "iso" /\ ExifAfter.text = "iso"
    /\ ExifBefore.time.aware = ExifAfter.time.aware
SecondsLater == Instant(ExifAfter.time) - Instant(ExifBefore.time)
HasFlag(flag) ==
    \E i \in 1..Len(exifResult.verification_flags) : exifResult.verification_flags[i] = flag

\* C21: compare_metadata sets time_valid to true iff both timestamps are
\* present and parseable, the after photo is strictly later than the before
\* photo and their difference is at most time_tolerance_minutes; an after
\* photo not later than the before photo gives time_valid = false with the
\* flag "... taken before the before photo", and a difference above the
\* tolerance gives time_valid = false with the flag "Time difference too large".
C21_TimeValid ==
    exifResult.called =>
        /\ exifResult.time_valid = PyTrue <=>
               /\ BothParseable
               /\ SecondsLater > 0
               /\ SecondsLater <= 60 * exifArgs.time_tolerance_minutes
        /\ BothParseable /\ SecondsLater <= 0 =>
               exifResult.time_valid = PyFalse /\ HasFlag(FlagAfterBefore)
        /\ BothParseable /\ Abs(SecondsLater) > 60 * exifArgs.time_tolerance_minutes =>
               exifResult.time_valid = PyFalse /\ HasFlag(FlagTimeTooLarge)

\* Two photos taken at the same instant were compared and found invalid.
C21_Witness ==
    /\ exifResult.called
    /\ BothParseable /\ SecondsLater = 0
    /\ exifResult.time_valid = PyFalse
    /\ HasFlag(FlagAfterBefore)

\* The radius of the candidate query a call is about to issue or has just issued.
Querying(p) == call[p].pc \in {"query", "rows"}
RadiiFromTenByFive ==
    \A p \in Procs :
        /\ call[p].pc = "query" => call[p].current_radius = 10 + 5 * call[p].queries
        /\ call[p].pc = "rows" => call[p].current_radius = 10 + 5 * (call[p].queries - 1)
        /\ Querying(p) => call[p].current_radius <= 50

\* C22 as stated: every call of assign_collector_to_quest makes at most 8
\* passes of the radius loop, from 10 km in steps of 5 km, and never queries
\* with a radius above 50 km.
C22_AtMostEightPasses ==
    /\ RadiiFromTenByFive
    /\ \A p \in Procs : call[p].queries <= 8

\* C22 (amended): every call of assign_collector_to_quest makes at most 9
\* passes of the radius loop (10, 15, ..., 50 km), from 10 km in steps of
\* 5 km, and never queries with a radius above 50 km.
C22_AtMostNinePasses ==
    /\ RadiiFromTenByFive
    /\ \A p \in Procs : call[p].queries <= 9

\* A call has failed after its ninth query, the one with 50 km.
C22_Witness ==
    \E p \in Procs :
        /\ call[p].pc = "done"
        /\ call[p].result.user = None
        /\ call[p].queries = 9

\* The criteria of a candidate except the distance, in the current database.
EligibleButDistance(c) ==
    /\ users[c].user_type = "collector"
    /\ users[c].is_active
    /\ users[c].collector_status = "available"
    /\ users[c].current_location_lat # NoValue /\ users[c].current_location_lng # NoValue
    /\ users[c].last_location_update # NoValue
    /\ now - users[c].last_location_update <= 60
    /\ Cardinality({q \in QuestIds : quests[q].collector_id = c
                       /\ quests[q].status \in {"assigned", "in_progress"}})
           < users[c].max_concurrent_quests
\* The collector is within km kilometres of the longitude.
WithinKm(c, quest_lng, km) ==
    TrueDistanceMeters(Abs(users[c].current_location_lng - quest_lng)) <= km * 1000
\* The collector a call assigns is one of the rows of its last candidate query.
AssignedFromLastQuery ==
    \A p \in Procs :
        Succeeded(p) =>
            \E i \in 1..Len(call[p].collectors) : call[p].collectors[i].user = call[p].result.user
\* Every row a candidate query returns is a collector that meets the criteria
\* in the database the query reads.
QueryReturnsEligible ==
    \A p \in Procs :
        (call[p].pc = "query" /\ call'[p].pc = "rows") =>
            \A i \in 1..Len(call'[p].collectors) :
                EligibleButDistance(call'[p].collectors[i].user)
QueryReturnsWithinRadius ==
    \A p \in Procs :
        (call[p].pc = "query" /\ call'[p].pc = "rows") =>
            \A i \in 1..Len(call'[p].collectors) :
                WithinKm(call'[p].collectors[i].user, call[p].quest_lng, call[p].current_radius)

\* C23 as stated: the collector assigned by assign_collector_to_quest was,
\* when the candidate query ran, an active collector with status available,
\* a location no older than 60 minutes, within the current radius of the
\* quest and with fewer active quests than max_concurrent_quests.
C23_AssignedMetCriteria ==
    /\ []AssignedFromLastQuery
    /\ [][QueryReturnsEligible /\ QueryReturnsWithinRadius]_vars
\* The same without the distance to the quest.
AssignedMetOtherCriteria ==
    /\ []AssignedFromLastQuery
    /\ [][QueryReturnsEligible]_vars

\* The composite score of the i-th candidate of the pool, and the order of
\* two scores as fractions.
ScoreOf(i) == CompositeScore(pool[i], pool)
ScoreLeq(a, b) == a.num * b.den <= b.num * a.den
ScoreLess(a, b) == a.num * b.den < b.num * a.den

\* C24: _select_best_collector returns a candidate whose composite score is
\* at least that of every candidate of the pool, and of the candidates with
\* the highest score it returns the first in the input order; the selection
\* is a function of the input list.
C24_FirstOfHighestScore ==
    (best.called /\ pool # << >>) =>
        /\ best.found
        /\ \E i \in 1..Len(pool) :
              /\ best.user = pool[i].user
              /\ best.score = ScoreOf(i)
              /\ \A j \in 1..Len(pool) : ScoreLeq(ScoreOf(j), ScoreOf(i))
              /\ \A j \in 1..(i - 1) : ScoreLess(ScoreOf(j), ScoreOf(i))
\* Two candidates that differ in distance and workload tie for the highest
\* score, and the first, the nearer one, is returned.
C24_Witness ==
    /\ best.called /\ Len(pool) = 2
    /\ pool[1].distance_km < pool[2].distance_km
    /\ pool[1].active_quests > pool[2].active_quests
    /\ ScoreLeq(ScoreOf(1), ScoreOf(2)) /\ ScoreLeq(ScoreOf(2), ScoreOf(1))
    /\ best.user = pool[1].user

\* The largest value of a field over the pool, and the three components of
\* the i-th candidate as the documentation gives them.
PoolMax(field) == MaxOfSet({pool[i][field] : i \in 1..Len(pool)})
StatedDistance(i) ==
    IF PoolMax("distance_km") = 0 THEN [num |-> 1, den |-> 1]
    ELSE [num |-> PoolMax("distance_km") - pool[i].distance_km,
          den |-> PoolMax("distance_km")]
StatedWorkload(i) ==
    IF PoolMax("active_quests") = 0 THEN [num |-> 1, den |-> 1]
    ELSE [num |-> PoolMax("active_quests") - pool[i].active_quests,
          den |-> PoolMax("active_quests")]
StatedReputation(i) ==
    IF PoolMax("reputation_score") = 0 THEN [num |-> 1, den |-> 2]
    ELSE [num |-> pool[i].reputation_score, den |-> PoolMax("reputation_score")]
StatedScore(i) ==
    LET ds == StatedDistance(i)
        ws == StatedWorkload(i)
        rs == StatedReputation(i)
    IN  [num |-> 40 * ds.num * ws.den * rs.den + 40 * ws.num * ds.den * rs.den
                 + 20 * rs.num * ds.den * ws.den,
         den |-> 100 * ds.den * ws.den * rs.den]
SameFraction(a, b) == a.num * b.den = b.num * a.den

\* C25 as stated: in _select_best_collector the reputation component is
\* reputation / highest reputation of the pool, and 0.5 when that highest
\* reputation is 0; the distance and workload components are 1 when the
\* largest distance, or the largest active-quest count, of the pool is 0.
\* The score of every candidate is 0.4, 0.4 and 0.2 of these components.
C25_ComponentsAsStated ==
    (best.called /\ pool # << >>) =>
        /\ \A i \in 1..Len(pool) :
              SameFraction(ScoredCollectors(pool)[i].score, StatedScore(i))
        /\ \E i \in 1..Len(pool) :
              best.user = pool[i].user /\ SameFraction(best.score, StatedScore(i))
\* The same for the pools in which some candidate has a reputation.
ComponentsAsStatedWithReputation ==
    (best.called /\ pool # << >> /\ PoolMax("reputation_score") > 0) =>
        \A i \in 1..Len(pool) :
            SameFraction(ScoredCollectors(pool)[i].score, StatedScore(i))

\* A fraction in lowest terms.
RECURSIVE Gcd(_, _)
Gcd(a, b) == IF b = 0 THEN a ELSE Gcd(b, a % b)
Lowest(x) == LET g == Gcd(x.num, x.den) IN [num |-> x.num \div g, den |-> x.den \div g]

\* What the analysis of the quests qs is to give.  The measures: the
\* completions under 5 minutes, the density (quests per km2, a fraction), the
\* most completions in one hour, the rejected quests.  The flags: those of
\* the triggered indicators.  The risk: the weighted sum of the triggered
\* indicators over the denominator 100 * n * (50 * density.den) * 10, capped
\* at 1.
StatedAnalysis(qs) ==
    LET n == Len(qs)
        rapid == Cardinality({i \in 1..n :
                     /\ qs[i].assigned_at # NoValue /\ qs[i].completed_at # NoValue
                     /\ qs[i].completed_at - qs[i].assigned_at < 5})
        density == analyze_location_patterns(qs).max_density
        in_hour == analyze_frequency_patterns(qs).max_per_hour
        rejected == Cardinality({i \in 1..n : qs[i].status = "rejected"})
        a == 50 * density.den
        timing == rapid > 0
        clustering == density.num > 10 * density.den
        frequency == in_hour >= 5
        rejection == 100 * rejected > 30 * n
        sum == (IF timing THEN 25 * Min2(rapid, n) * a * 10 ELSE 0)
               + (IF clustering THEN 30 * Min2(density.num, a) * n * 10 ELSE 0)
               + (IF frequency THEN 20 * Min2(in_hour, 10) * n * a ELSE 0)
               + (IF rejection THEN 25 * rejected * a * 10 ELSE 0)
    IN  [in_hour |-> in_hour,
         flags |-> (IF timing THEN {"impossible_timing"} ELSE {})
                   \cup (IF clustering THEN {"location_clustering"} ELSE {})
                   \cup (IF frequency THEN {"high_frequency_spike"} ELSE {})
                   \cup (IF rejection THEN {"high_rejection_rate"} ELSE {}),
         risk |-> IF sum >= 100 * n * a * 10 THEN [num |-> 1, den |-> 1]
                  ELSE Lowest([num |-> sum, den |-> 100 * n * a * 10])]

\* C26: in a full analysis an indicator has its entry in fraud_flags iff it
\* is triggered (rapid completions: some duration under 5 minutes; location
\* clustering: density above 10 per km2; high frequency: 5 or more in one
\* hour; rejection rate above 0.30), and the score is the sum over the
\* triggered indicators of weight times capped term, with the weights 0.25,
\* 0.30, 0.20 and 0.25, capped at 1.
C26_TriggeredIndicatorsOnly ==
    (fraudRun.pattern.called /\ Len(AnalysedQuests) >= 3) =>
        LET stated == StatedAnalysis(AnalysedQuests)
        IN  /\ fraudRun.pattern.fraud_flags = stated.flags
            /\ Lowest(fraudRun.pattern.calculated_risk_score) = stated.risk
\* An analysis of quests of which five were completed in one hour, each in
\* exactly 5 minutes, spread over 1 km2: the frequency indicator alone is
\* triggered, on its threshold, and the score is 0.20 * 5/10.
C26_Witness ==
    /\ fraudRun.pattern.called
    /\ fraudRun.pattern.max_quests_in_hour = 5
    /\ \E i \in 1..Len(AnalysedQuests) :
          AnalysedQuests[i].completed_at - AnalysedQuests[i].assigned_at = 5
    /\ fraudRun.pattern.fraud_flags = {"high_frequency_spike"}
    /\ fraudRun.pattern.calculated_risk_score.num * 10
           = fraudRun.pattern.calculated_risk_score.den

\* The quests in the 6-character cell of the quest just inserted that were
\* created in the 30 minutes before it, and those of them created the same day.
RecentInSameCell ==
    {i \in 1..Len(reports) :
        /\ Prefix(reports[i].geohash, 6) = Prefix(reports'[Len(reports')].geohash, 6)
        /\ createClock - reports[i].created_at <= 30}
RestInserts == Len(reports') = Len(reports) + 1 /\ created'.via = "rest"

\* C27 as stated: create_quest creates no quest (it answers 409) while a
\* quest of the same 6-character geohash cell was created in the preceding
\* 30 minutes, also when that quest was created before the last midnight.
C27_RecentDuplicateRejected ==
    [][RestInserts => RecentInSameCell = {}]_vars
\* The same for the quests created since the last midnight.
RecentDuplicateOfTodayRejected ==
    [][RestInserts => \A i \in RecentInSameCell : reports[i].created_at < Today]_vars

\* C28: when the calls of assign_collector_to_quest run one at a time, in
\* any order with completions of quests, no collector holds more quests in
\* status assigned or in_progress than max_concurrent_quests.
C28_SerialCallsKeepCapacity ==
    \A c \in Collectors :
        Cardinality({q \in QuestIds : /\ quests[q].collector_id = c
                                      /\ quests[q].status \in {"assigned", "in_progress"}})
            <= users[c].max_concurrent_quests
\* Two calls have run one after the other; the first filled a collector to
\* capacity and the second did not give that collector its quest.
C28_Witness ==
    /\ \A p \in Procs : Returned(p)
    /\ Succeeded("a")
    /\ call["a"].quest # call["b"].quest
    /\ quests[call["a"].quest].status = "assigned"
    /\ quests[call["a"].quest].collector_id = call["a"].result.user
    /\ ActiveCount(call["a"].result.user) = users[call["a"].result.user].max_concurrent_quests
    /\ call["b"].result.user # call["a"].result.user

\* The two steps that may verify a quest: a completion whose AI confidence
\* reached the threshold, and the approval of the quest's pending review.
VerifyingStep(q) ==
    /\ lastRequest'.quest = q
    /\ \/ lastRequest'.op = "complete_quest" /\ lastRequest'.verifies
       \/ lastRequest'.op = "update_review" /\ lastRequest'.verifies
BecomesVerified(q) ==
    questTable[q].status # "verified" /\ questTable'[q].status = "verified"

\* C29 as stated: over the operations of users who are no admins (create,
\* self-assign, complete, PATCH update) and the admins' review decisions, a
\* quest becomes verified only by complete_quest with an AI confidence at or
\* above the threshold or by the approval of its pending review.
C29_VerifiedOnlyByAiOrAdmin ==
    [][\A q \in OpQuests : BecomesVerified(q) => VerifyingStep(q)]_vars
\* The same over the operations other than PATCH update.
VerifiedOnlyByAiOrAdminWithoutPatch ==
    [][\A q \in OpQuests :
          (BecomesVerified(q) /\ lastRequest'.op # "update_quest") => VerifyingStep(q)]_vars

\* The QUEST_COMPLETION transactions of a quest.
BountiesOf(q) == {i \in 1..Len(bounties) : bounties[i].quest_id = q}

\* C30 as stated: at most one QUEST_COMPLETION transaction is created per
\* quest, and the reputation increments, one with each such transaction,
\* are at most one per quest.
C30_OneBountyPerQuest ==
    /\ \A q \in OpQuests : Cardinality(BountiesOf(q)) <= 1
    /\ reputations["c1"] + reputations["c2"]
           <= Cardinality({q \in OpQuests : BountiesOf(q) # {}})
\* A complete_quest on a quest that is not assigned or in progress is answered
\* 400 (403 for another collector's quest) and creates no transaction.
CompleteOutsideActiveRejected ==
    [][\A q \in OpQuests :
          (/\ lastRequest'.op = "complete_quest" /\ lastRequest'.quest = q
           /\ lastRequest' # lastRequest
           /\ questTable[q].status \notin {"assigned", "in_progress"}) =>
              /\ lastRequest'.response \in {"400", "403"}
              /\ bounties' = bounties /\ reputations' = reputations]_vars


====
